---- MODULE Spec2Model ----
(***************************************************************************)
(* A model of the PM4 market maker (src/pm4): the order reconciler         *)
(* MarketMakerBot._reconcile against the venue seen through                *)
(* PolymarketAdapter, under the logger MarketMakerBot.__init__ builds.     *)
(*                                                                         *)
(* Prices are integers in units of half the reconciler's price tolerance   *)
(* (1e-9), so that two prices match when they differ by less than          *)
(* PriceTol units.  Sizes are integers in shares.                          *)
(***************************************************************************)
EXTENDS Integers, Sequences, FiniteSets, TLC

VARIABLES
    logLevel,       \* cfg.logging.level
    enablePerf,     \* cfg.logging.enable_performance
    apiMatched,     \* whether the venue's order objects carry "size_matched"
    venue,          \* the venue's open orders, in the order get_orders lists them
    nextOid,        \* the next order id the venue hands out
    desired,        \* the desired ladder handed to _reconcile: [bids, asks]
    pass,           \* what the last reconcile pass did (see NoPass)
    prev,           \* what the pass before it did
    passes,         \* number of reconcile passes run
    wsTask,         \* the _ws_loop task: "none", "running", "failed" (ended by an exception), "ended", "cancelled"
    book,           \* MarketData.state
    trade_ts,       \* MarketData.trade_ts, as ages in time units, newest last
    lastFrame,      \* the frame _ws_loop read last
    frames,         \* number of frames read
    mid_from_book,  \* whether _update_mid has assigned state.mid
    bankroll_B,     \* cfg.risk.bankroll_B
    lifeLeft,       \* the part of the market's window still ahead: (resolve_ts_ms - now) / (resolve_ts_ms - start_ts_ms)
    phase,          \* where run is: "start", "warmup", "running" (awaiting the event), "done" (returned)
    warmAge,        \* time units since _warmup started
    botInd,         \* the Indicators object (self.ind)
    quoteTask,      \* the _quote_loop task: "none" (not created), "running", "failed", "ended", "cancelled"
    fillsTask,      \* the _poll_fills task, likewise
    q_yes,          \* the YES balance at the venue
    venueFills,     \* the venue's trades of the bot, oldest first
    last_fills_poll,\* _last_fills_poll_ms, as a fill timestamp
    cycle,          \* how the last quote cycle went: "none", "skipped", "ok", "error"
    sigma_at_fill,  \* sigma_smoothed when the fill poller last handed over fills
    ladIn,          \* the arguments of a call of build_v1_ladder
    ladOut,         \* what the call returned: [bids, asks], each a list of levels
    cleaned,        \* clean_orders of each side of ladOut, as Quoter.compute emits them
    handed,         \* the ts of the fills given to Indicators.record_fill, in call order
    shutdownSet,    \* whether the _shutdown event is set
    ahead,          \* the tasks whose wake-up was queued before that of run when the event was set
    late,           \* per task, the steps it has run since the event was set
    snapshots,      \* number of times the calibration snapshot was written to calib_path
    log,            \* the logger: [tail: kind of the last record, closed]
    calls,          \* the adapter methods called so far
    qpc,            \* what _quote_loop awaits: "sleep", "balances", "list", "op"
    fpc,            \* what _poll_fills awaits: "sleep", "get_fills"
    inPass,         \* number of _reconcile calls that have not returned
    plan,           \* the place and cancel calls the pass in progress has still to make
    last_book_ts_ms,  \* BookState.last_book_ts_ms, as an age (Missing: the default 0); SpecMd follows it
    last_trade_ts_ms  \* BookState.last_trade_ts_ms, likewise

cfgVars == <<logLevel, enablePerf, apiMatched>>
reconVars == <<venue, nextOid, desired, pass, prev, passes>>
mdVars == <<wsTask, book, trade_ts, lastFrame, frames, mid_from_book>>
botVars == <<bankroll_B, lifeLeft, phase, warmAge, botInd, quoteTask, fillsTask, q_yes,
             venueFills, last_fills_poll, cycle, sigma_at_fill>>
fnVars == <<ladIn, ladOut, cleaned>>
pollVars == <<handed>>
runVars == <<shutdownSet, ahead, late, snapshots, log, calls, qpc, fpc, inPass, plan>>
tsVars == <<last_book_ts_ms, last_trade_ts_ms>>
vars == <<cfgVars, reconVars, mdVars, botVars, fnVars, pollVars, runVars, tsVars>>

(***************************************************************************)
(* Bounds of the model.                                                    *)
(***************************************************************************)
MaxInitOrders == 2      \* open orders at the venue when the bot starts
MaxPasses == 2          \* reconcile passes in one behaviour
MaxFrames == 3          \* frames read from the market channel in one behaviour
MaxBotFrames == 1       \* frames read by the running bot in one behaviour
MaxCycles == 2          \* quote cycles counted in passes
MaxFills == 1           \* fills of the bot's orders in one behaviour
MinReturnSamples == 1   \* cfg.warmup.min_return_samples
MaxWarmupUnits == 2     \* cfg.warmup.max_warmup_s, in time units
MaxHanded == 3          \* calls of record_fill in one behaviour
MaxRunFrames == 2       \* frames read in one behaviour of the bot with shutdown
MaxMdFrames == 3        \* frames read in one behaviour of the market data
MaxBufFrames == 2       \* frames of the market channel in SpecBuffers
MaxBufFills == 2        \* fills recorded in SpecBuffers
ClockStart == 1500000   \* lifeLeft when SpecClock starts, in micro: before start_ts_ms
ClockEnd == 500000      \* SpecClock stops at lifeLeft = -ClockEnd: after resolve_ts_ms
ClockStep == 20000      \* what one step of SpecClock takes from lifeLeft
MaxSigFrames == 2       \* frames of the market channel in SpecSigma
MaxSigSamples == 3      \* returns sampled in SpecSigma
MaxSigFills == 1        \* fills recorded in SpecSigma
MaxSampleCalls == 3     \* calls of on_time_sample in SpecSample
MaxTickFrames == 3      \* frames read in SpecTick
MaxFeedFrames == 2      \* frames read in SpecFeed

(***************************************************************************)
(* Program constants.                                                      *)
(***************************************************************************)
PriceTol == 2           \* abs(ep - wp) < 1e-9, in units of 0.5e-9
SizeTolNum == 1         \* sz_diff > 0.25, as the fraction SizeTolNum/SizeTolDen
SizeTolDen == 4

ASSET_YES == "YES"
ASSET_NO == "NO"

\* The element of a singleton.  Only({e : x \in {v}}) is e with x standing
\* for the value of v: v is computed once, however often e mentions x.
Only(S) == CHOOSE r \in S : TRUE

Abs(x) == Only({IF v < 0 THEN -v ELSE v : v \in {x}})

(***************************************************************************)
(* Fixed-point arithmetic.  The program computes with IEEE doubles; the    *)
(* model computes with integers in units of 1e-6 ("micro"): logit-space    *)
(* values, dimensionless factors, dollars and shares alike.  Products and  *)
(* quotients are split so that no intermediate leaves 32 bits, and         *)
(* saturate at MaxMicro.                                                   *)
(***************************************************************************)
Micro == 1000000
Kilo == 1000
MaxMicro == 2000000000

Max2(a, b) == Only({IF x >= y THEN x ELSE y : x \in {a}, y \in {b}})
Min2(a, b) == Only({IF x <= y THEN x ELSE y : x \in {a}, y \in {b}})

\* utils.clip: max(lo, min(hi, x))
clip(x, lo, hi) == Only({Max2(lo, Min2(hi, v)) : v \in {x}})

\* a * b for non-negative micro operands
MulPos(a, b) ==
    LET ah == a \div Kilo
        al == a % Kilo
        bh == b \div Kilo
        bl == b % Kilo
    IN  IF ah > 0 /\ bh > MaxMicro \div ah
        THEN MaxMicro
        ELSE Min2(MaxMicro, ah * bh + (ah * bl + al * bh) \div Kilo + (al * bl) \div Micro)

MulMicro(a, b) ==
    Only({IF (x < 0) = (y < 0) THEN MulPos(Abs(x), Abs(y)) ELSE -MulPos(Abs(x), Abs(y)) :
             x \in {a}, y \in {b}})

\* the n decimal digits that follow rem / b, appended to acc
RECURSIVE DivDigits(_, _, _, _)
DivDigits(rem, b, n, acc) ==
    IF n = 0
    THEN acc
    ELSE Only({DivDigits(r, b, n - 1, c) :
                  r \in {(rem * 10) % b}, c \in {acc * 10 + (rem * 10) \div b}})

\* a / b for a >= 0 and 0 < b
DivPos(a, b) ==
    IF a \div b >= MaxMicro \div Micro
    THEN MaxMicro
    ELSE IF b <= MaxMicro \div 10
    THEN DivDigits(a % b, b, 6, a \div b)
    ELSE DivDigits((a \div Kilo) % (b \div Kilo), b \div Kilo, 6, a \div b)

DivMicro(a, b) ==
    Only({IF x < 0 THEN -DivPos(-x, y) ELSE DivPos(x, y) : x \in {a}, y \in {b}})

Ln2 == 693147       \* math.log(2)

\* atanh series of math.log on [1, 2): 2 * (z + z^3/3 + z^5/5 + ...),
\* z = (m - 1) / (m + 1)
RECURSIVE LnSeries(_, _, _, _)
\* the terms z^(n+2) / (n+2), ..., z^11 / 11 added to acc, zn being z^n
LnSeries(zn, z2, n, acc) ==
    IF n >= 11
    THEN acc
    ELSE Only({LnSeries(t, z2, n + 2, acc + t \div (n + 2)) : t \in {MulMicro(zn, z2)}})

LnMantissa(m) ==
    Only({Only({2 * LnSeries(z, z2, 1, z) : z2 \in {MulMicro(z, z)}}) :
             z \in {DivMicro(m - Micro, m + Micro)}})

RECURSIVE LnNorm(_, _)
LnNorm(v, k) ==
    IF v >= 2 * Micro THEN Only({LnNorm(w, j) : w \in {v \div 2}, j \in {k + 1}})
    ELSE IF v < Micro THEN Only({LnNorm(w, j) : w \in {v * 2}, j \in {k - 1}})
    ELSE k * Ln2 + LnMantissa(v)

\* math.log(v) for v > 0
ln(v) == Only({LnNorm(w, 0) : w \in {v}})

RECURSIVE ExpSeries(_, _, _, _)
\* sum of f^n / n! from term n on, term being f^(n-1) / (n-1)!
ExpSeries(f, n, term, acc) ==
    IF term = 0 \/ n > 12
    THEN acc
    ELSE Only({ExpSeries(f, n + 1, t, acc + t) : t \in {MulMicro(term, f) \div n}})

RECURSIVE Scale2(_, _)
Scale2(v, k) ==
    IF k = 0 THEN v
    ELSE IF k > 0
    THEN (IF v >= MaxMicro \div 2 THEN MaxMicro
          ELSE Only({Scale2(w, j) : w \in {2 * v}, j \in {k - 1}}))
    ELSE Only({Scale2(w, j) : w \in {v \div 2}, j \in {k + 1}})

\* math.exp(y)
exp(y) ==
    Only({IF k < -31 THEN 0
          ELSE Only({Scale2(e, k) : e \in {ExpSeries(z - k * Ln2, 1, Micro, Micro)}}) :
             z \in {y}, k \in {y \div Ln2}})

\* x ** a for x >= 0
pow(x, a) ==
    Only({IF a = 0 THEN Micro
          ELSE IF v = 0 THEN 0
          ELSE IF a = Micro THEN v
          ELSE exp(MulMicro(a, ln(v))) : v \in {x}})

(***************************************************************************)
(* Prices of the book and of the ladder are integers in units of 1e-4      *)
(* (BP to the dollar).  utils.logit is tabulated, in micro, at the         *)
(* multiples of 0.005 (the table ends hold logit(eps) and logit(1 - eps),  *)
(* eps = 1e-6) and interpolated linearly between them.                     *)
(***************************************************************************)
BP == 10000
LogitGrid == 50

LogitTab ==
    <<
    -13815510, -5293305, -4595120, -4184591, -3891820, -3663562, -3476099, -3316780,
    -3178054, -3055049, -2944439, -2843852, -2751535, -2666159, -2586689, -2512306,
    -2442347, -2376273, -2313635, -2254058, -2197225, -2142863, -2090741, -2040656,
    -1992430, -1945910, -1900959, -1857455, -1815290, -1774368, -1734601, -1695912,
    -1658228, -1621486, -1585627, -1550597, -1516347, -1482832, -1450010, -1417843,
    -1386294, -1355332, -1324925, -1295046, -1265666, -1236763, -1208311, -1180290,
    -1152680, -1125460, -1098612, -1072121, -1045969, -1020141, -994623, -969401,
    -944462, -919793, -895384, -871222, -847298, -823600, -800119, -776846,
    -753772, -730888, -708185, -685657, -663294, -641091, -619039, -597133,
    -575364, -553728, -532217, -510826, -489548, -468379, -447312, -426343,
    -405465, -384674, -363965, -343333, -322773, -302281, -281851, -261480,
    -241162, -220894, -200671, -180488, -160343, -140229, -120144, -100083,
    -80043, -60018, -40005, -20001, 0, 20001, 40005, 60018,
    80043, 100083, 120144, 140229, 160343, 180488, 200671, 220894,
    241162, 261480, 281851, 302281, 322773, 343333, 363965, 384674,
    405465, 426343, 447312, 468379, 489548, 510826, 532217, 553728,
    575364, 597133, 619039, 641091, 663294, 685657, 708185, 730888,
    753772, 776846, 800119, 823600, 847298, 871222, 895384, 919793,
    944462, 969401, 994623, 1020141, 1045969, 1072121, 1098612, 1125460,
    1152680, 1180290, 1208311, 1236763, 1265666, 1295046, 1324925, 1355332,
    1386294, 1417843, 1450010, 1482832, 1516347, 1550597, 1585627, 1621486,
    1658228, 1695912, 1734601, 1774368, 1815290, 1857455, 1900959, 1945910,
    1992430, 2040656, 2090741, 2142863, 2197225, 2254058, 2313635, 2376273,
    2442347, 2512306, 2586689, 2666159, 2751535, 2843852, 2944439, 3055049,
    3178054, 3316780, 3476099, 3663562, 3891820, 4184591, 4595120, 5293305,
    13815510 >>

logit(p) ==
    Only({LET k == q \div LogitGrid
              lo == LogitTab[k + 1]
          IN  IF q % LogitGrid = 0
              THEN lo
              ELSE lo + ((LogitTab[k + 2] - lo) * (q % LogitGrid)) \div LogitGrid :
             q \in {clip(p, 0, BP)}})

\* the largest k in lo..hi with logit(k * tick) <= x, given that lo is one
RECURSIVE FloorTicks(_, _, _, _)
FloorTicks(x, tick, lo, hi) ==
    IF lo >= hi
    THEN lo
    ELSE Only({IF logit(mid * tick) <= x
               THEN FloorTicks(x, tick, mid, hi)
               ELSE FloorTicks(x, tick, lo, mid - 1) : mid \in {(lo + hi + 1) \div 2}})

\* the smallest k in lo..hi with logit(k * tick) >= x, given that hi is one
RECURSIVE CeilTicks(_, _, _, _)
CeilTicks(x, tick, lo, hi) ==
    IF lo >= hi
    THEN hi
    ELSE Only({IF logit(mid * tick) >= x
               THEN CeilTicks(x, tick, lo, mid)
               ELSE CeilTicks(x, tick, mid + 1, hi) : mid \in {(lo + hi) \div 2}})

\* utils.sigmoid in double precision: 1.0 / (1.0 + exp(-x)) is 1.0 from
\* x = 36.7368006 on, and exp(x) / (1.0 + exp(x)) is 0.0 up to x = -745.1332191
SigmoidOne == 36736801
SigmoidZero == -745133220

\* math.floor(sigmoid(x) / tick) * tick: sigmoid is the inverse of logit,
\* strictly between 0 and 1 where the floats tell it from 0 and 1
sigmoid_floor(x, tick) ==
    Only({IF v >= SigmoidOne THEN tick * (BP \div tick)
          ELSE IF logit(tick) > v THEN 0
          ELSE tick * FloorTicks(v, tick, 1, BP \div tick - 1) :
             v \in {x}})

\* math.ceil(sigmoid(x) / tick) * tick
sigmoid_ceil(x, tick) ==
    Only({IF v <= SigmoidZero THEN 0
          ELSE IF logit(BP - tick) < v THEN BP
          ELSE tick * CeilTicks(v, tick, 1, BP \div tick - 1) :
             v \in {x}})

\* For a negative tick, p / tick is negative: math.floor(p / tick) * tick is
\* then the multiple of the tick at or above p, math.ceil(p / tick) * tick
\* the one at or below p.
floor_to_tick(x, tick) ==
    IF tick < 0 THEN sigmoid_ceil(x, -tick) ELSE sigmoid_floor(x, tick)

ceil_to_tick(x, tick) ==
    IF tick < 0 THEN sigmoid_floor(x, -tick) ELSE sigmoid_ceil(x, tick)

Levels == {"DEBUG", "INFO", "WARNING", "ERROR", "CRITICAL"}

LevelNo(l) ==
    CASE l = "DEBUG" -> 10
      [] l = "INFO" -> 20
      [] l = "WARNING" -> 30
      [] l = "ERROR" -> 40
      [] OTHER -> 50

(***************************************************************************)
(* MarketMakerBot.__init__: the logger is a DebugLogger only when the      *)
(* level is not INFO or performance logging is on.                         *)
(***************************************************************************)
LoggerClass(level, perf) ==
    IF level # "INFO" \/ perf THEN "DebugLogger" ELSE "JsonlLogger"

Logger == LoggerClass(logLevel, enablePerf)

(***************************************************************************)
(* ErrorContext.capture_error ends in logger.error(...): JsonlLogger has   *)
(* no such method, so the call raises AttributeError there.                *)
(***************************************************************************)
capture_error_raises(logger) == logger = "JsonlLogger"

(***************************************************************************)
(* DebugLogger.error writes the record only when level <= ERROR.           *)
(***************************************************************************)
error_written(logger, level) ==
    logger = "DebugLogger" /\ LevelNo(level) <= 40

(***************************************************************************)
(* PolymarketAdapter.list_open_orders: each venue order in the adapter's   *)
(* standard shape.  size_remaining is read from "size_matched" when the    *)
(* venue's order carries that key, and from "size" otherwise.              *)
(***************************************************************************)
adapter_size_remaining(o, hasMatched) ==
    IF hasMatched THEN o.size_matched ELSE o.size

list_open_orders(v, hasMatched) ==
    [i \in 1..Len(v) |->
        [order_id |-> v[i].order_id, side |-> v[i].side,
         asset_id |-> v[i].asset_id, price |-> v[i].price, size |-> v[i].size,
         size_remaining |-> adapter_size_remaining(v[i], hasMatched)]]

(***************************************************************************)
(* _reconcile, lines 986-997: existing_bids / existing_asks are dicts      *)
(* keyed by price.  A dict keeps its keys in first-insertion order and,    *)
(* for a key inserted twice, the value inserted last.                      *)
(***************************************************************************)
side_orders_any_asset(open, side) ==
    SelectSeq(open, LAMBDA o : o.side = side)

side_orders(open, side) ==
    SelectSeq(open, LAMBDA o : o.asset_id = ASSET_YES /\ o.side = side)

RECURSIVE dict_keys(_)
dict_keys(s) ==
    IF s = <<>> THEN <<>>
    ELSE Only({IF \E i \in 1..Len(k) : k[i] = p THEN k ELSE Append(k, p) :
                  k \in {dict_keys(SubSeq(s, 1, Len(s) - 1))}, p \in {s[Len(s)].price}})

dict_value(s, p) ==
    LET I == {i \in 1..Len(s) : s[i].price = p}
    IN  s[CHOOSE i \in I : \A j \in I : j <= i]

(***************************************************************************)
(* reconcile_side, lines 1003-1007: the first key within the tolerance.    *)
(***************************************************************************)
price_match(ep, wp) == Abs(ep - wp) < PriceTol

found_index(keys, wp) ==
    LET I == {i \in 1..Len(keys) : price_match(keys[i], wp)}
    IN  IF I = {} THEN 0 ELSE CHOOSE i \in I : \A j \in I : i <= j

(***************************************************************************)
(* reconcile_side, lines 1010-1012:                                        *)
(*   abs(wsize - current_size) / max(current_size, 1e-9) > 0.25.           *)
(* Sizes are whole shares here, so for current_size = 0 the quotient       *)
(* exceeds 0.25 exactly when wsize # 0, which the cross-multiplied form    *)
(* gives as well.                                                          *)
(***************************************************************************)
sz_diff_reaches(wsize, current_size) ==
    Abs(wsize - current_size) * SizeTolDen >= SizeTolNum * current_size

sz_diff_exceeds(wsize, current_size) ==
    Abs(wsize - current_size) * SizeTolDen > SizeTolNum * current_size

(***************************************************************************)
(* The venue's answer to one call of a pass.  fail names the calls that    *)
(* fail in this pass: fail.cancel a set of order ids, fail.place a set of  *)
(* <<side, price>>, fail.list whether list_open_orders fails; fail.blank   *)
(* the <<side, price>> whose placement the venue answers with neither an   *)
(* "orderID" nor an "errorMsg".                                            *)
(***************************************************************************)
cancel_order_ok(fail, oid) == oid \notin fail.cancel
place_limit_order_ok(fail, side, price) == <<side, price>> \notin fail.place

\* PolymarketAdapter.place_limit_order: the order id, an exception for an
\* "errorMsg" (or a transport failure), "" for any other answer
place_limit_order(fail, side, price) ==
    IF ~place_limit_order_ok(fail, side, price) THEN "raised"
    ELSE IF <<side, price>> \in fail.blank THEN "blank"
    ELSE "orderID"

(***************************************************************************)
(* The except-blocks of reconcile_side (lines 1018-1023, 1029-1034,        *)
(* 1040-1045): ErrorContext.log_operation_error, then                      *)
(* logger.write("order_error").  When the former raises, the exception     *)
(* leaves reconcile_side and the order_error record is never written.      *)
(***************************************************************************)
on_error(st, op, logger) ==
    IF capture_error_raises(logger)
    THEN [st EXCEPT !.ops = Append(@, [op EXCEPT !.ok = FALSE, !.recorded = FALSE]),
                    !.raised = TRUE]
    ELSE [st EXCEPT !.ops = Append(@, [op EXCEPT !.ok = FALSE, !.recorded = TRUE])]

on_success(st, op) ==
    [st EXCEPT !.ops = Append(@, [op EXCEPT !.ok = TRUE, !.recorded = TRUE])]

Op(act, why, side, lvl, price, size, oid) ==
    [act |-> act, why |-> why, side |-> side, lvl |-> lvl, price |-> price,
     size |-> size, oid |-> oid, ok |-> TRUE, recorded |-> TRUE, created |-> act = "place"]

(***************************************************************************)
(* reconcile_side, lines 1025-1034 and 1016-1017: one place_limit_order.   *)
(***************************************************************************)
place_step(st, why, want, lvl, fail, logger) ==
    LET op == Op("place", why, want.side, lvl, want.price, want.size, st.oid)
    IN  \* oid 0 stands for no id and for ""
        Only({IF answer = "orderID"
              THEN [on_success(st, op) EXCEPT !.oid = @ + 1]
              ELSE IF answer = "blank"
              THEN on_success(st, [op EXCEPT !.oid = 0, !.created = FALSE])
              ELSE on_error(st, [op EXCEPT !.oid = 0, !.created = FALSE], logger) :
                 answer \in {place_limit_order(fail, want.side, want.price)}})

(***************************************************************************)
(* reconcile_side, lines 1008-1024: a desired level whose price is found.  *)
(***************************************************************************)
matched_step_place_anyway(st, want, lvl, o, fail, logger) ==
    IF sz_diff_exceeds(want.size, o.size_remaining)
    THEN LET op == Op("cancel", "resize", want.side, lvl, o.price,
                      o.size_remaining, o.order_id)
         IN  IF cancel_order_ok(fail, o.order_id)
             THEN place_step(on_success(st, op), "resize", want, lvl, fail, logger)
             ELSE place_step(on_error(st, op, logger), "resize", want, lvl, fail,
                             logger)
    ELSE st

matched_step(st, want, lvl, o, fail, logger) ==
    IF sz_diff_exceeds(want.size, o.size_remaining)
    THEN LET op == Op("cancel", "resize", want.side, lvl, o.price,
                      o.size_remaining, o.order_id)
         IN  IF cancel_order_ok(fail, o.order_id)
             THEN place_step(on_success(st, op), "resize", want, lvl, fail, logger)
             ELSE on_error(st, op, logger)
    ELSE st

(***************************************************************************)
(* reconcile_side, lines 1000-1034: the loop over the desired levels.      *)
(***************************************************************************)
RECURSIVE want_loop(_, _, _, _, _, _)
want_loop(st, wanted, lvl, existing, fail, logger) ==
    IF lvl > Len(wanted) \/ st.raised THEN st
    ELSE Only({Only({Only({want_loop(st1, wanted, lvl + 1, existing, fail, logger) :
                  st1 \in {IF f # 0
                           THEN Only({IF st2.raised THEN st2
                                      ELSE [st2 EXCEPT !.claimed = @ \cup {keys[f]}] :
                                         st2 \in {matched_step(st, want, lvl,
                                                     dict_value(existing, keys[f]),
                                                     fail, logger)}})
                           ELSE place_step(st, "new", want, lvl, fail, logger)}}) :
                  f \in {found_index(keys, want.price)}}) :
                  want \in {wanted[lvl]}, keys \in {dict_keys(existing)}})

(***************************************************************************)
(* reconcile_side, lines 1035-1045: cancel every key that was not claimed. *)
(***************************************************************************)
RECURSIVE prune_loop(_, _, _, _, _, _)
prune_loop(st, side, k, existing, fail, logger) ==
    Only({IF k > Len(keys) \/ st.raised THEN st
          ELSE Only({LET op == Op("cancel", "prune", side, 0, keys[k], o.size_remaining,
                                  o.order_id)
                     IN  Only({prune_loop(st1, side, k + 1, existing, fail, logger) :
                            st1 \in {IF keys[k] \in st.claimed THEN st
                                     ELSE IF cancel_order_ok(fail, o.order_id)
                                          THEN on_success(st, op)
                                          ELSE on_error(st, op, logger)}}) :
                        o \in {dict_value(existing, keys[k])}}) :
             keys \in {dict_keys(existing)}})

reconcile_side(st, wanted, existing, side, fail, logger) ==
    Only({Only({prune_loop(st1, side, 1, ex, fail, logger) :
                   st1 \in {want_loop(st0, wanted, 1, ex, fail, logger)}}) :
             st0 \in {[st EXCEPT !.claimed = {}]}, ex \in {existing}})

(***************************************************************************)
(* _reconcile, lines 977-1047.  The result holds the snapshot the pass     *)
(* worked on, the venue calls it issued in order, and whether an exception *)
(* left it.                                                                *)
(***************************************************************************)
reconcile(d, v, oid, hasMatched, fail, logger) ==
    LET st0 == [ops |-> <<>>, claimed |-> {}, raised |-> FALSE, oid |-> oid]
    IN  IF fail.list
        THEN [ran |-> TRUE, listed |-> FALSE, open |-> <<>>, desired |-> d,
              ops |-> <<>>, raised |-> capture_error_raises(logger), oid0 |-> oid,
              oid |-> oid]
        ELSE Only({Only({Only({
                [ran |-> TRUE, listed |-> TRUE, open |-> open, desired |-> d,
                 ops |-> st2.ops, raised |-> st2.raised, oid0 |-> oid,
                 oid |-> st2.oid] :
                  st2 \in {IF st1.raised THEN st1
                           ELSE reconcile_side(st1, d.asks, side_orders(open, "SELL"),
                                               "SELL", fail, logger)}}) :
                  st1 \in {reconcile_side(st0, d.bids, side_orders(open, "BUY"),
                                          "BUY", fail, logger)}}) :
                  open \in {list_open_orders(v, hasMatched)}})

NoPass ==
    [ran |-> FALSE, listed |-> FALSE, open |-> <<>>,
     desired |-> [bids |-> <<>>, asks |-> <<>>], ops |-> <<>>, raised |-> FALSE,
     oid0 |-> 0, oid |-> 0]

(***************************************************************************)
(* The venue applies the calls that succeeded: cancel_order removes the    *)
(* order, place_limit_order adds a new one with nothing matched            *)
(* (adapters.py, cancel_order and place_limit_order).                      *)
(***************************************************************************)
venue_apply(v, op) ==
    IF ~op.ok THEN v
    ELSE IF op.act = "cancel"
         THEN SelectSeq(v, LAMBDA o : o.order_id # op.oid)
         ELSE IF ~op.created THEN v
         ELSE Append(v, [order_id |-> op.oid, side |-> op.side,
                         asset_id |-> ASSET_YES, price |-> op.price,
                         size |-> op.size, size_matched |-> 0])

RECURSIVE venue_after(_, _, _)
venue_after(v, ops, i) ==
    IF i > Len(ops)
    THEN v
    ELSE Only({venue_after(w, ops, i + 1) : w \in {venue_apply(v, ops[i])}})

(***************************************************************************)
(* Market data (market_data.py).  A field of a frame is a number, is       *)
(* missing (no such key, or null), or is garbage (a value float() rejects).*)
(***************************************************************************)
Num(v) == [tag |-> "num", v |-> v]
Missing == [tag |-> "missing"]
Garbage == [tag |-> "garbage"]

\* float() also accepts "inf", "-inf" and "nan" (json.loads: Infinity, NaN).
\* The infinities are numbers beyond every price; NaN is a number for which
\* every comparison of the program that involves it is false, as it is for
\* one below every price in b > 0 and in b < a with b > 0.
PosInf == MaxMicro
NegInf == -MaxMicro
NaN == -MaxMicro - 1
IsFinite(v) == NegInf < v /\ v < PosInf

\* int(msg.get("timestamp", now_ms())): the age of the instant it names.
\* The key may be absent (now), hold an integer, or hold what int() rejects.
ts_raises(msg) == msg.timestamp.tag = "garbage"
ts_age(msg) == IF msg.timestamp.tag = "num" THEN msg.timestamp.v ELSE 0

\* BookState(): the defaults of the dataclass
BookState0 ==
    [best_bid |-> 0, best_ask |-> BP, mid |-> BP \div 2, tick_size |-> 100,
     last_trade_price |-> Missing]

\* a mistaken test: the tops are in order, wherever they lie
mid_updates_if_ordered(st) == st.best_bid < st.best_ask

\* the condition under which _update_mid assigns state.mid
mid_updates(st) == st.best_bid > 0 /\ st.best_ask < BP /\ st.best_bid < st.best_ask

\* a mistaken _update_mid: the mid follows the tops whatever they are
_update_mid_always(st) == [st EXCEPT !.mid = (st.best_bid + st.best_ask) \div 2]

_update_mid(st) ==
    IF mid_updates(st)
    THEN [st EXCEPT !.mid = (st.best_bid + st.best_ask) \div 2]
    ELSE st

\* What a handler leaves behind: the book state, the trade timestamps (as
\* ages, newest last), whether an exception left it, and whether it assigned
\* the mid.
Handled(st, tts, raised, midset) ==
    [state |-> st, trade_ts |-> tts, raised |-> raised, midset |-> midset]

on_book(st, tts, msg) ==
    LET bids == IF msg.bids # <<>> THEN msg.bids ELSE msg.buys
        asks == IF msg.asks # <<>> THEN msg.asks ELSE msg.sells
    IN  IF bids # <<>> /\ bids[1].tag # "num"
        THEN Handled(st, tts, TRUE, FALSE)
        ELSE LET s1 == IF bids # <<>> THEN [st EXCEPT !.best_bid = bids[1].v] ELSE st
             IN  IF asks # <<>> /\ asks[1].tag # "num"
                 THEN Handled(s1, tts, TRUE, FALSE)
                 ELSE LET s2 == IF asks # <<>>
                                THEN [s1 EXCEPT !.best_ask = asks[1].v]
                                ELSE s1
                      IN  IF ts_raises(msg)
                          THEN Handled(s2, tts, TRUE, FALSE)
                          ELSE Handled(_update_mid(s2), tts, FALSE, mid_updates(s2))

\* the value the loop over price_changes leaves in best_bid / best_ask:
\* the last one float() accepts, Missing if there is none
\* a mistaken loop: a field float() rejects ends it
RECURSIVE parsed_until_error(_, _, _)
parsed_until_error(pcs, field, i) ==
    IF \E j \in 1..i : pcs[j][field].tag = "garbage"
    THEN Missing
    ELSE IF i = 0
    THEN Missing
    ELSE IF pcs[i][field].tag = "num"
    THEN pcs[i][field]
    ELSE parsed_until_error(pcs, field, i - 1)

RECURSIVE last_parsed(_, _, _)
last_parsed(pcs, field, i) ==
    IF i = 0
    THEN Missing
    ELSE IF pcs[i][field].tag = "num"
    THEN pcs[i][field]
    ELSE last_parsed(pcs, field, i - 1)

on_price_change(st, tts, msg) ==
    LET pcs == msg.price_changes
        best_bid == last_parsed(pcs, "best_bid", Len(pcs))
        best_ask == last_parsed(pcs, "best_ask", Len(pcs))
        s1 == IF best_bid.tag = "num" THEN [st EXCEPT !.best_bid = best_bid.v] ELSE st
        s2 == IF best_ask.tag = "num" THEN [s1 EXCEPT !.best_ask = best_ask.v] ELSE s1
    IN  IF ts_raises(msg)
        THEN Handled(s2, tts, TRUE, FALSE)
        ELSE Handled(_update_mid(s2), tts, FALSE, mid_updates(s2))

on_tick_size_change(st, tts, msg) ==
    IF msg.new_tick_size.tag # "num"
    THEN Handled(st, tts, TRUE, FALSE)
    ELSE Handled([st EXCEPT !.tick_size = msg.new_tick_size.v], tts, FALSE, FALSE)

\* deque(maxlen=5000) of MarketData.trade_ts
trade_ts_maxlen == 5000

\* deque(maxlen=5000) of Indicators._returns
returns_maxlen == 5000

\* deque(maxlen=2000) of Indicators._fills_pending
fills_pending_maxlen == 2000

\* a deque without maxlen: append never evicts
deque_append_unbounded(buf, x, maxlen) == Append(buf, x)

\* collections.deque(maxlen=maxlen).append(x): a full deque drops its
\* leftmost entry before x is added on the right
deque_append(buf, x, maxlen) ==
    IF Len(buf) >= maxlen THEN Append(Tail(buf), x) ELSE Append(buf, x)

on_last_trade_price(st, tts, msg) ==
    IF msg.price.tag # "num" \/ ts_raises(msg)
    THEN Handled(st, tts, TRUE, FALSE)
    ELSE Handled([st EXCEPT !.last_trade_price = msg.price],
                 deque_append(tts, ts_age(msg), trade_ts_maxlen), FALSE, FALSE)

(***************************************************************************)
(* MarketMakerBot._ws_loop, one frame.  Only json.loads is inside the try: *)
(* msg.get on a JSON value that is not an object, and whatever a handler   *)
(* raises, leave the loop and end the task.                                *)
(***************************************************************************)
ws_frame(st, tts, raw) ==
    IF raw.json = "invalid"
    THEN Handled(st, tts, FALSE, FALSE)
    ELSE IF raw.json # "object"
    THEN Handled(st, tts, TRUE, FALSE)
    ELSE IF raw.event_type = "book" THEN on_book(st, tts, raw)
    ELSE IF raw.event_type = "price_change" THEN on_price_change(st, tts, raw)
    ELSE IF raw.event_type = "tick_size_change" THEN on_tick_size_change(st, tts, raw)
    ELSE IF raw.event_type = "last_trade_price" THEN on_last_trade_price(st, tts, raw)
    ELSE Handled(st, tts, FALSE, FALSE)

(***************************************************************************)
(* Inputs of the model: the desired ladders, the orders resting at the     *)
(* venue when a run starts, the logging configurations, and the venue      *)
(* calls that fail in a pass (none, the listing, or one cancel or place).  *)
(***************************************************************************)
Want(side, price, size) ==
    [asset_id |-> ASSET_YES, side |-> side, price |-> price, size |-> size]

BidLadders ==
    { <<>>, <<Want("BUY", 40, 10)>>,
      <<Want("BUY", 40, 30), Want("BUY", 38, 10)>> }

AskLadders == { <<>>, <<Want("SELL", 60, 10)>> }

Ladders == [bids : BidLadders, asks : AskLadders]

Resting(asset, side, price, size, matched) ==
    [asset_id |-> asset, side |-> side, price |-> price, size |-> size,
     size_matched |-> matched]

RestingShapes ==
    { Resting(ASSET_YES, "BUY", 40, 8, 0), Resting(ASSET_YES, "BUY", 40, 30, 0),
      Resting(ASSET_YES, "BUY", 41, 30, 20), Resting(ASSET_YES, "BUY", 35, 8, 0),
      Resting(ASSET_YES, "SELL", 60, 8, 0), Resting(ASSET_YES, "SELL", 65, 30, 0),
      Resting(ASSET_NO, "BUY", 40, 8, 0), Resting(ASSET_YES, "OTHER", 60, 8, 0) }

WithIds(shapes) ==
    [i \in 1..Len(shapes) |->
        [order_id |-> i, side |-> shapes[i].side, asset_id |-> shapes[i].asset_id,
         price |-> shapes[i].price, size |-> shapes[i].size,
         size_matched |-> shapes[i].size_matched]]

InitVenues ==
    UNION { {WithIds(s) : s \in [1..n -> RestingShapes]} : n \in 0..MaxInitOrders }

LogConfigs == { <<"INFO", FALSE>>, <<"INFO", TRUE>>, <<"CRITICAL", FALSE>> }

NoFail == [list |-> FALSE, cancel |-> {}, place |-> {}, blank |-> {}]

Fails(d, v) ==
    {NoFail, [NoFail EXCEPT !.list = TRUE]}
    \cup {[NoFail EXCEPT !.cancel = {v[i].order_id}] : i \in 1..Len(v)}
    \cup {[NoFail EXCEPT !.place = {<<d.bids[i].side, d.bids[i].price>>}] :
              i \in 1..Len(d.bids)}
    \cup {[NoFail EXCEPT !.place = {<<d.asks[i].side, d.asks[i].price>>}] :
              i \in 1..Len(d.asks)}
    \cup {[NoFail EXCEPT !.blank = {<<d.bids[i].side, d.bids[i].price>>}] :
              i \in 1..Min2(1, Len(d.bids))}

(***************************************************************************)
(* Configuration (types.py), at its defaults.  Fractions are in micro,     *)
(* durations in seconds.                                                   *)
(***************************************************************************)
dt_sample_s == 5
tau_fast_s == 30
tau_slow_s == 1800
markout_h1_s == 10
markout_h2_s == 60
markout_w1 == 600000
markout_w2 == 400000
n_plays == 3
eta_time == 500000
slippage_buffer == 100000
gamma_a == 1000000
gamma_max == 50000000
lambda_min == 800000
lambda_max == 2000000
beta_p == 700000
alpha_U == 500000
U_ref == 50000000
w_A == 1000000
w_L == 1000000
s_scale == 1000000
I_max == 3000000
c_tox == 1000000
c_sigma == 1000000
nu_sigma == 1400000
sigma_max == 6000000
sigma_tau_up_s == 10
sigma_tau_down_s == 90
c_risk == 200000
kappa0 == 1000000
rate_ref_per_s == 50000
max_half_spread_logit == 1500000
ladder_decay == 800000
ladder_step_mult == 500000
ladder_min_step_logit == 50000
ladder_max_levels == 5
min_order_size == 1000000
max_order_notional_side == 100000000

(***************************************************************************)
(* Time.  The model's clock ticks in units of dt_sample_s; the program's   *)
(* timestamps appear as ages, the number of ticks since the instant they   *)
(* name, and an age stops growing at AgeCap, beyond every horizon the      *)
(* program compares it with (the 60 s of the mark-out and trade windows).  *)
(***************************************************************************)
TimeUnit_s == dt_sample_s
AgeCap == markout_h2_s \div TimeUnit_s + 1

SampleAgeCap == dt_sample_s \div TimeUnit_s

older(age) == Min2(age + 1, AgeCap)

\* x / max(y, 1e-9) for x >= 0, y >= 0
div_floor_eps(x, y) ==
    IF y > 0 THEN DivMicro(x, y) ELSE IF x = 0 THEN 0 ELSE MaxMicro

(***************************************************************************)
(* MarketData.trade_rate_per_s and Quoter.estimate_U_proxy: the trades     *)
(* counted from the newest back to the first one older than the window.    *)
(***************************************************************************)
RECURSIVE recent_trades(_, _, _)
recent_trades(tts, i, window_s) ==
    IF i = 0 \/ tts[i] * TimeUnit_s > window_s
    THEN 0
    ELSE 1 + recent_trades(tts, i - 1, window_s)

trade_rate_per_s(tts, window_s) ==
    IF tts = <<>> THEN 0 ELSE DivMicro(recent_trades(tts, Len(tts), window_s), window_s)

U_proxy_window_s == 21600

\* math.sqrt(n)
estimate_U_proxy(tts) ==
    pow(recent_trades(tts, Len(tts), U_proxy_window_s) * Micro, Micro \div 2)

(***************************************************************************)
(* Indicators (trading.py).                                                *)
(***************************************************************************)
Indicators0 ==
    [sigma_smoothed |-> Micro,
     ema_fast_abs |-> 0, ema_slow_abs |-> 0, ema_fast_r |-> 0,
     ema_fast_abs_r |-> 0, ema_slow_abs_r |-> 0,
     returns |-> <<>>,
     last_sample_age |-> Missing, last_x |-> Missing,
     fills_pending |-> <<>>,
     tox_ema_pos_h1 |-> 0, tox_ema_pos_h2 |-> 0]

\* old + a * (x - old), a = 1 - exp(-dt / tau)
_ema(old, x, tau_s, dt_s) ==
    IF tau_s <= 0
    THEN x
    ELSE Only({o + MulMicro(Micro - exp(-DivMicro(dt_s, tau_s)), v - o) :
                  o \in {old}, v \in {x}})

\* (tau / T) ** eta_time, life being tau / T: the part of the market's
\* window [start_ts_ms, resolve_ts_ms] that is still ahead, 0 once resolved
time_factor_of(life, eta) == pow(Max2(life, 0), eta)

time_factor(life) == time_factor_of(life, eta_time)

B_side(bankroll) == MulMicro(MulMicro(Micro \div 2, bankroll), DivMicro(1, Max2(n_plays, 1)))

\* prices in micro
price_micro(p) == p * (Micro \div BP)

q_max(bankroll, p, q, life) ==
    LET p_opp == IF q >= 0 THEN Micro - price_micro(p) ELSE price_micro(p)
        denom == MulMicro(p_opp, Micro + slippage_buffer)
    IN  div_floor_eps(MulMicro(B_side(bankroll), time_factor(life)), denom)

q_hat(bankroll, q, p, life) ==
    LET qm == q_max(bankroll, p, q, life)
    IN  IF qm > 0 THEN clip(DivMicro(q, qm), -Micro, Micro) ELSE 0

gamma(qhat) ==
    LET u == clip(Abs(qhat), 0, Micro - 1)
        g == DivMicro(Micro, pow(Micro - u, gamma_a))
    IN  clip(g, Micro, gamma_max)

A_p(p) ==
    LET pm == clip(price_micro(p), 1, Micro - 1)
        uncertainty == 4 * MulMicro(pm, Micro - pm)
    IN  pow(uncertainty, beta_p)

L_U(U) ==
    LET Uref == Max2(U_ref, 1)
    IN  pow(div_floor_eps(Uref, U + Uref), alpha_U)

lambda_struct(p, U) ==
    LET A == A_p(p)
        L == L_U(U)
        s == MulMicro(w_A, A - Micro) + MulMicro(w_L, L - Micro)
        g == clip(DivMicro(s, Max2(s_scale, 1)), -Micro, Micro)
        lam == IF g > 0
               THEN Micro + MulMicro(lambda_max - Micro, g)
               ELSE Micro + MulMicro(Micro - lambda_min, g)
    IN  clip(lam, lambda_min, lambda_max)

record_fill(ind, fill) ==
    [ind EXCEPT !.fills_pending = deque_append(@, fill, fills_pending_maxlen)]

\* markout_fill without the h1_done / h2_done tests: a fill past a horizon
\* enters the horizon's EMA at every call
markout_fill_every_call(st, f, x_now) ==
    LET s == IF f.side = "BUY" THEN 1 ELSE -1
        pos == Max2(0, s * (x_now - logit(f.price)))
        do1 == f.age * TimeUnit_s >= markout_h1_s
        do2 == f.age * TimeUnit_s >= markout_h2_s
        i1 == IF do1
              THEN [st.ind EXCEPT !.tox_ema_pos_h1 = _ema(@, pos, tau_fast_s, dt_sample_s)]
              ELSE st.ind
        i2 == IF do2
              THEN [i1 EXCEPT !.tox_ema_pos_h2 = _ema(@, pos, tau_fast_s, dt_sample_s)]
              ELSE i1
        f2 == [f EXCEPT !.h1_done = @ \/ do1, !.h2_done = @ \/ do2]
    IN  [ind |-> i2,
         keep |-> IF f2.h1_done /\ f2.h2_done THEN st.keep
                  ELSE deque_append(st.keep, f2, fills_pending_maxlen)]

\* one fill of update_markouts: st is [ind, keep]
markout_fill(st, f, x_now) ==
    LET s == IF f.side = "BUY" THEN 1 ELSE -1
        x_fill == logit(f.price)
        mo == s * (x_now - x_fill)
        pos == Max2(0, mo)
        do1 == f.age * TimeUnit_s >= markout_h1_s /\ ~f.h1_done
        do2 == f.age * TimeUnit_s >= markout_h2_s /\ ~f.h2_done
        i1 == IF do1
              THEN [st.ind EXCEPT !.tox_ema_pos_h1 = _ema(@, pos, tau_fast_s, dt_sample_s)]
              ELSE st.ind
        i2 == IF do2
              THEN [i1 EXCEPT !.tox_ema_pos_h2 = _ema(@, pos, tau_fast_s, dt_sample_s)]
              ELSE i1
        f2 == [f EXCEPT !.h1_done = @ \/ do1, !.h2_done = @ \/ do2]
    IN  [ind |-> i2,
         keep |-> IF f2.h1_done /\ f2.h2_done THEN st.keep
                  ELSE deque_append(st.keep, f2, fills_pending_maxlen)]

\* the loop of update_markouts over fills[lo..hi], from the oldest on; the
\* range is walked in two halves, the first before the second, which keeps
\* the evaluation shallow for a long pending list
RECURSIVE markout_loop(_, _, _, _, _)
markout_loop(st, fills, lo, hi, x_now) ==
    IF lo > hi
    THEN st
    ELSE IF lo = hi
    THEN markout_fill(st, fills[lo], x_now)
    ELSE Only({markout_loop(st2, fills, (lo + hi) \div 2 + 1, hi, x_now) :
                  st2 \in {markout_loop(st, fills, lo, (lo + hi) \div 2, x_now)}})

update_markouts(ind, p_mid) ==
    Only({Only({[st.ind EXCEPT !.fills_pending = st.keep] :
                   st \in {markout_loop([ind |-> i0, keep |-> <<>>], i0.fills_pending,
                                        1, Len(i0.fills_pending), x_now)}}) :
             i0 \in {ind}, x_now \in {logit(p_mid)}})

\* sigma_raw without the final clip
sigma_raw_unclipped(i2, rate) ==
    LET I == clip(DivMicro(rate, Max2(rate_ref_per_s, 1)), Micro, I_max)
        J == div_floor_eps(i2.ema_fast_abs, i2.ema_slow_abs)
        D == div_floor_eps(Abs(i2.ema_fast_r), i2.ema_fast_abs_r)
        S_sigma == MulMicro(MulMicro(Max2(ln(Max2(J, Micro)), 0), clip(D, 0, Micro)), I)
        T == MulMicro(markout_w1, i2.tox_ema_pos_h1) + MulMicro(markout_w2, i2.tox_ema_pos_h2)
        Z_tox == div_floor_eps(T, i2.ema_slow_abs_r)
        S == Min2(MaxMicro, S_sigma + MulMicro(c_tox, Z_tox))
    IN  Micro + MulMicro(c_sigma, pow(S, nu_sigma))

sigma_raw(i2, rate) ==
    LET I == clip(DivMicro(rate, Max2(rate_ref_per_s, 1)), Micro, I_max)
        J == div_floor_eps(i2.ema_fast_abs, i2.ema_slow_abs)
        D == div_floor_eps(Abs(i2.ema_fast_r), i2.ema_fast_abs_r)
        S_sigma == MulMicro(MulMicro(Max2(ln(Max2(J, Micro)), 0), clip(D, 0, Micro)), I)
        T == MulMicro(markout_w1, i2.tox_ema_pos_h1) + MulMicro(markout_w2, i2.tox_ema_pos_h2)
        Z_tox == div_floor_eps(T, i2.ema_slow_abs_r)
        S == Min2(MaxMicro, S_sigma + MulMicro(c_tox, Z_tox))
    IN  clip(Micro + MulMicro(c_sigma, pow(S, nu_sigma)), Micro, sigma_max)

\* a mistaken test: no allowance for a timer that fires a little early
sample_too_early_whole(elapsed_ms) == elapsed_ms < dt_sample_s * Kilo

\* (t_ms - self._last_sample_ts_ms) < int(dt_s * 1000) - 10
sample_too_early(elapsed_ms) == elapsed_ms < dt_sample_s * Kilo - 10

\* on_time_sample called elapsed_ms after the last admitted sample
on_time_sample_at(ind0, elapsed_ms, p_mid, rate0) ==
    Only({IF ind.last_sample_age = Missing
          THEN [ind EXCEPT !.last_sample_age = Num(0), !.last_x = Num(x)]
          ELSE IF sample_too_early(elapsed_ms)
          THEN ind
          ELSE LET r == x - (IF ind.last_x # Missing THEN ind.last_x.v ELSE x)
                   abs_r == Abs(r)
               IN  Only({Only({LET tau == IF raw > ind.sigma_smoothed
                                          THEN sigma_tau_up_s
                                          ELSE sigma_tau_down_s
                               IN  [i2 EXCEPT
                                      !.sigma_smoothed = _ema(@, raw, tau, dt_sample_s)] :
                                  raw \in {sigma_raw(i2, rate)}}) :
                     i2 \in {[ind EXCEPT
                               !.returns = deque_append(@, r, returns_maxlen),
                               !.last_sample_age = Num(0),
                               !.last_x = Num(x),
                               !.ema_fast_abs = _ema(@, abs_r, tau_fast_s, dt_sample_s),
                               !.ema_slow_abs = _ema(@, abs_r, tau_slow_s, dt_sample_s),
                               !.ema_fast_r = _ema(@, r, tau_fast_s, dt_sample_s),
                               !.ema_fast_abs_r = _ema(@, abs_r, tau_fast_s, dt_sample_s),
                               !.ema_slow_abs_r = _ema(@, abs_r, tau_slow_s, dt_sample_s)]}}) :
             ind \in {ind0}, x \in {logit(p_mid)}, rate \in {rate0}})

\* the time since the last admitted sample, as the model's clock has it
on_time_sample(ind0, p_mid, rate0) ==
    on_time_sample_at(ind0,
                      IF ind0.last_sample_age = Missing THEN 0
                      ELSE ind0.last_sample_age.v * TimeUnit_s * Kilo,
                      p_mid, rate0)

sigma(ind) == ind.sigma_smoothed

\* a mistaken test: one sample more than asked for
warm_ready_late(ind, min_return_samples) == Len(ind.returns) > min_return_samples

warm_ready(ind, min_return_samples) == Len(ind.returns) >= min_return_samples

(***************************************************************************)
(* build_v1_ladder (trading.py).  Ladder prices are in BP units, sizes in  *)
(* micro shares.                                                           *)
(***************************************************************************)
PriceFloor == 10        \* 0.001
PriceCeil == 9990       \* 0.999
RiskUnitShare == 100000 \* base_risk_unit = B_side * 0.10

\* decay ** i
RECURSIVE decay_pow(_, _)
decay_pow(decay, i) == IF i = 0 THEN Micro ELSE MulMicro(decay, decay_pow(decay, i - 1))

Level(i, p, size) == [level |-> i, price |-> p, size |-> size]

RECURSIVE bid_levels(_, _, _, _, _, _, _, _)
bid_levels(x_b0, base_step, tick, base_risk_unit, decay, N_bid, i, bids) ==
    IF i >= N_bid
    THEN bids
    ELSE Only({LET level_risk == MulMicro(base_risk_unit, decay_pow(decay, i))
                   size == DivMicro(level_risk, price_micro(Max2(p, PriceFloor)))
               IN  IF p <= PriceFloor
                   THEN bids
                   ELSE Only({bid_levels(x_b0, base_step, tick, base_risk_unit, decay,
                                         N_bid, i + 1, acc) :
                                 acc \in {Append(bids, Level(i, p, size))}}) :
                  p \in {floor_to_tick(x_b0 - i * base_step, tick)}})

RECURSIVE ask_levels(_, _, _, _, _, _, _, _)
ask_levels(x_a0, base_step, tick, base_risk_unit, decay, N_ask, i, asks) ==
    IF i >= N_ask
    THEN asks
    ELSE Only({LET level_risk == MulMicro(base_risk_unit, decay_pow(decay, i))
                   size == DivMicro(level_risk,
                                    Max2(Micro - price_micro(p), price_micro(PriceFloor)))
               IN  IF p >= PriceCeil
                   THEN asks
                   ELSE Only({ask_levels(x_a0, base_step, tick, base_risk_unit, decay,
                                         N_ask, i + 1, acc) :
                                 acc \in {Append(asks, Level(i, p, size))}}) :
                  p \in {ceil_to_tick(x_a0 + i * base_step, tick)}})

\* sorted(..., key=price, reverse=...): insertion of l into a sorted sequence
RECURSIVE insert_sorted(_, _, _)
insert_sorted(s, l, reverse) ==
    IF s = <<>>
    THEN <<l>>
    ELSE IF (IF reverse THEN Head(s).price >= l.price ELSE Head(s).price <= l.price)
    THEN Only({<<Head(s)>> \o insert_sorted(t, l, reverse) : t \in {Tail(s)}})
    ELSE <<l>> \o s

RECURSIVE sorted_by_price(_, _, _)
sorted_by_price(s, i, reverse) ==
    IF i = 0
    THEN <<>>
    ELSE Only({insert_sorted(t, s[i], reverse) : t \in {sorted_by_price(s, i - 1, reverse)}})

\* dedupe that sorts the levels and keeps all of them
dedupe_keep_all(levels, side) ==
    sorted_by_price(levels, Len(levels), side = "bid")

\* per price the level with the smallest level number, sorted by price
dedupe(levels, side) ==
    Only({sorted_by_price(seen, Len(seen), side = "bid") :
             seen \in {SelectSeq(levels, LAMBDA l :
                          \A j \in 1..Len(levels) :
                              levels[j].price = l.price => levels[j].level >= l.level)}})

build_v1_ladder(r_x, half_b, half_a, tick, B, decay, step_mult, min_step_logit, max_levels) ==
    Only({LET x_min == logit(Max2(tick, PriceFloor))
              x_max == logit(Min2(BP - tick, PriceCeil))
          IN  Only({Only({[bids |-> dedupe(bids, "bid"), asks |-> dedupe(asks, "ask")] :
                             bids \in {bid_levels(x_b0, base_step, tick, base_risk_unit,
                                                  decay, N_bid, 0, <<>>)},
                             asks \in {ask_levels(x_a0, base_step, tick, base_risk_unit,
                                                  decay, N_ask, 0, <<>>)}}) :
                       N_bid \in {IF base_step > 0
                                  THEN Min2(max_levels, Max2(0, x_b0 - x_min) \div base_step)
                                  ELSE 0},
                       N_ask \in {IF base_step > 0
                                  THEN Min2(max_levels, Max2(0, x_max - x_a0) \div base_step)
                                  ELSE 0}}) :
             x_b0 \in {r_x - half_b},
             x_a0 \in {r_x + half_a},
             base_step \in {Max2(MulMicro(step_mult, half_b + half_a) \div 2, min_step_logit)},
             base_risk_unit \in {MulMicro(B, RiskUnitShare)}})

(***************************************************************************)
(* Quoter.compute (trading.py).                                            *)
(***************************************************************************)
Order(side, price, size) ==
    [asset_id |-> ASSET_YES, side |-> side, price |-> price, size |-> size]

RECURSIVE clean_loop(_, _, _, _, _)
clean_loop(raw_orders, side, i, total_notional, out) ==
    IF i > Len(raw_orders)
    THEN out
    ELSE LET o == raw_orders[i]
             sz == Max2(min_order_size, o.size)
             px == o.price
         IN  Only({IF total > max_order_notional_side
                   THEN out
                   ELSE Only({clean_loop(raw_orders, side, i + 1, total, acc) :
                                 acc \in {Append(out, Order(side, px, sz))}}) :
                      total \in {total_notional +
                                 (IF side = "BUY"
                                  THEN MulMicro(price_micro(px), sz)
                                  ELSE MulMicro(Micro - price_micro(px), sz))}})

\* clean_orders without the per-side notional limit
clean_orders_uncapped(raw_orders, side) ==
    [i \in 1..Len(raw_orders) |->
        Order(side, raw_orders[i].price, Max2(min_order_size, raw_orders[i].size))]

clean_orders(raw_orders, side) ==
    Only({clean_loop(raw, side, 1, 0, <<>>) : raw \in {raw_orders}})

\* the inventory and structure terms of compute: qhat, gamma, lambda
quote_terms(p, tts, q, bankroll, life) ==
    Only({[qhat |-> qhat, gam |-> gamma(qhat), lam |-> lam] :
             qhat \in {q_hat(bankroll, q, p, life)},
             lam \in {lambda_struct(p, estimate_U_proxy(tts))}})

\* the reservation price and the half spread of compute, in logit space
quote_centre(p, tts, t, sig) ==
    LET qhat == t.qhat
        gam == t.gam
        lam == t.lam
        delta == MulMicro(MulMicro(MulMicro(qhat, gam), lam), sig)
        m == logit(p)
        Delta_risk == MulMicro(MulMicro(MulMicro(c_risk, gam), lam), sig)
        rate == trade_rate_per_s(tts, 60)
        kappa_scale == Micro + DivMicro(rate, Max2(rate_ref_per_s, 1))
        kappa == MulMicro(kappa0, kappa_scale)
        Delta_liq == MulMicro(DivMicro(Micro, gam),
                              ln(Micro + div_floor_eps(gam, kappa)))
    IN  [delta |-> delta,
         r_x |-> m - delta,
         base_half_spread |-> clip(Delta_risk + Delta_liq, 0, max_half_spread_logit)]

compute(bk, tts, ind, q, bankroll, life) ==
    LET p == clip(bk.mid, 0, BP)
        sig == sigma(ind)
        B == MulMicro(B_side(bankroll), time_factor(life))
    IN  Only({Only({Only({Only({
           [metrics |-> [p_mid |-> p, qhat |-> t.qhat, gamma |-> t.gam, lambda |-> t.lam,
                         sigma |-> sig, delta_logit |-> c.delta, r_logit |-> c.r_x,
                         n_bids |-> Len(bid_orders), n_asks |-> Len(ask_orders)],
            bids |-> bid_orders,
            asks |-> ask_orders] :
               bid_orders \in {clean_orders(ladder.bids, "BUY")},
               ask_orders \in {clean_orders(ladder.asks, "SELL")}}) :
               ladder \in {build_v1_ladder(c.r_x, c.base_half_spread, c.base_half_spread,
                                           bk.tick_size, B, ladder_decay, ladder_step_mult,
                                           ladder_min_step_logit, ladder_max_levels)}}) :
               c \in {quote_centre(p, tts, t, sig)}}) :
               t \in {quote_terms(p, tts, q, bankroll, life)}})

(***************************************************************************)
(* The venue's side of fills and balances (adapters.py).  A fill carries a *)
(* timestamp ts, which orders the fills, and the age of that instant.      *)
(***************************************************************************)
UnitsPerBP == 200000    \* order-price units (0.5e-9) in 1e-4
TradesLimit == 20       \* get_trades(TradeParams(limit=20))

\* the ladder as _reconcile compares it: prices in order-price units
order_units(orders) ==
    [i \in 1..Len(orders) |-> [orders[i] EXCEPT !.price = @ * UnitsPerBP]]

Fill(ts, side, price, size) ==
    [ts |-> ts, age |-> 0, side |-> side, asset_id |-> ASSET_YES, price |-> price,
     size |-> size, h1_done |-> FALSE, h2_done |-> FALSE]

\* a trade of the account in another token
FillOf(asset, ts, side, price, size) ==
    [Fill(ts, side, price, size) EXCEPT !.asset_id = asset]

get_fills(vfills, since_ts) ==
    LET recent == SubSeq(vfills, Max2(1, Len(vfills) - TradesLimit + 1), Len(vfills))
    IN  SelectSeq(recent, LAMBDA f : ~(f.ts <= since_ts))

RECURSIVE record_fills(_, _, _)
record_fills(ind, fills, i) ==
    IF i > Len(fills)
    THEN ind
    ELSE Only({record_fills(i2, fills, i + 1) : i2 \in {record_fill(ind, fills[i])}})

RECURSIVE max_ts(_, _)
max_ts(fills, i) == IF i = 0 THEN 0 ELSE Max2(fills[i].ts, max_ts(fills, i - 1))

age_fills(fills) == [i \in 1..Len(fills) |-> [fills[i] EXCEPT !.age = older(@)]]

(***************************************************************************)
(* Frames of the market channel.                                           *)
(***************************************************************************)
NoFrame == [json |-> "none"]
InvalidJson == [json |-> "invalid"]
NonObject == [json |-> "non_object"]
UnknownEvent == [json |-> "object", event_type |-> "other"]

\* a book message: the sides under either naming, and the timestamp
BookMsgAt(bids, buys, asks, sells, ts) ==
    [json |-> "object", event_type |-> "book", bids |-> bids, buys |-> buys,
     asks |-> asks, sells |-> sells, timestamp |-> ts]

BookMsg(bids, asks) == BookMsgAt(bids, <<>>, asks, <<>>, Missing)

PriceChangeMsgAt(pcs, ts) ==
    [json |-> "object", event_type |-> "price_change", price_changes |-> pcs,
     timestamp |-> ts]

PriceChangeMsg(pcs) == PriceChangeMsgAt(pcs, Missing)

TickSizeMsg(t) ==
    [json |-> "object", event_type |-> "tick_size_change", new_tick_size |-> t]

LastTradeMsgAt(p, ts) ==
    [json |-> "object", event_type |-> "last_trade_price", price |-> p, timestamp |-> ts]

LastTradeMsg(p) == LastTradeMsgAt(p, Missing)

IngestFrames ==
    {InvalidJson, NonObject, UnknownEvent}
    \cup { BookMsg(b, a) :
             b \in {<<>>, <<Garbage>>, <<Missing>>, <<Num(0)>>, <<Num(4000)>>, <<Num(6000)>>},
             a \in {<<>>, <<Garbage>>, <<Num(4000)>>, <<Num(4800)>>, <<Num(BP)>>} }
    \cup { PriceChangeMsg(<<[best_bid |-> b, best_ask |-> a]>>) :
             b \in {Missing, Garbage, Num(4000), Num(4800)},
             a \in {Missing, Garbage, Num(5000)} }
    \cup { PriceChangeMsg(<<[best_bid |-> Num(4000), best_ask |-> Num(5000)],
                            [best_bid |-> Garbage, best_ask |-> Num(4800)]>>) }
    \cup { TickSizeMsg(t) : t \in {Missing, Garbage, Num(50), Num(100)} }
    \cup { LastTradeMsg(p) : p \in {Missing, Garbage, Num(4000)} }

(***************************************************************************)
(* The ingestor alone: frames arrive on the market channel.                *)
(***************************************************************************)
NoLadderIn == [r_x |-> 0, half_b |-> 0, half_a |-> 0, tick |-> 100, B_side |-> 0,
               max_levels |-> 0]

NoLadderOut == [called |-> FALSE, bids |-> <<>>, asks |-> <<>>]

LadderIdle ==
    /\ ladIn = NoLadderIn
    /\ ladOut = NoLadderOut
    /\ cleaned = [bids |-> <<>>, asks |-> <<>>]

PollIdle == handed = <<>>

\* BookState(): last_book_ts_ms = 0 and last_trade_ts_ms = 0
TsFresh ==
    /\ last_book_ts_ms = Missing
    /\ last_trade_ts_ms = Missing

Tasks == {"ws", "fills", "quote"}

NotLate == [t \in Tasks |-> 0]

\* run has written warmup_start and nobody has signalled shutdown
RunIdle ==
    /\ shutdownSet = FALSE
    /\ ahead = {}
    /\ late = NotLate
    /\ snapshots = 0
    /\ log = [tail |-> "event", closed |-> FALSE]
    /\ calls = {}
    /\ qpc = "sleep"
    /\ fpc = "sleep"
    /\ inPass = 0
    /\ plan = <<>>

MdFresh ==
    /\ wsTask = "running"
    /\ book = BookState0
    /\ trade_ts = <<>>
    /\ lastFrame = NoFrame
    /\ frames = 0
    /\ mid_from_book = FALSE

ReconcileIdle ==
    /\ apiMatched = FALSE
    /\ venue = <<>>
    /\ nextOid = 1
    /\ desired = [bids |-> <<>>, asks |-> <<>>]
    /\ pass = NoPass
    /\ prev = NoPass
    /\ passes = 0

BotFresh ==
    /\ phase = "warmup"
    /\ warmAge = 0
    /\ botInd = Indicators0
    /\ quoteTask = "none"
    /\ fillsTask = "none"
    /\ q_yes = 0
    /\ venueFills = <<>>
    /\ last_fills_poll = 0
    /\ cycle = "none"
    /\ sigma_at_fill = Micro

\* the loop of _ws_loop handles one frame, the n-th at most
WsFrame(raw, n) ==
    /\ wsTask = "running"
    /\ frames < n
    /\ LET h == ws_frame(book, trade_ts, raw)
       IN  /\ book' = h.state
           /\ trade_ts' = h.trade_ts
           /\ wsTask' = IF h.raised THEN "failed"
                        ELSE IF shutdownSet /\ raw.json # "invalid" THEN "ended"
                        ELSE "running"
           /\ mid_from_book' = (mid_from_book \/ h.midset)
    /\ lastFrame' = raw
    /\ frames' = frames + 1

InitIngest ==
    /\ \E c \in LogConfigs : logLevel = c[1] /\ enablePerf = c[2]
    /\ ReconcileIdle
    /\ MdFresh
    /\ BotFresh
    /\ LadderIdle
    /\ PollIdle
    /\ TsFresh
    /\ RunIdle
    /\ bankroll_B = 50 * Micro
    /\ lifeLeft = Micro

IngestFrame ==
    /\ \E raw \in IngestFrames : WsFrame(raw, MaxFrames)
    /\ UNCHANGED <<cfgVars, tsVars, runVars, fnVars, pollVars, reconVars, botVars>>

NextIngest == IngestFrame

SpecIngest == InitIngest /\ [][NextIngest]_vars

(***************************************************************************)
(* SpecMd: the market data under frames of every kind: tops of book inside *)
(* and outside [0, 1], infinite and NaN, either naming of the sides, and   *)
(* timestamps absent, older than those ingested, or not integers.  The     *)
(* frames of a behaviour arrive within one unit of time, so that the age   *)
(* of a timestamp is the one its message gives it.                         *)
(***************************************************************************)
MdBids == {<<>>, <<Num(4000)>>, <<Num(6000)>>, <<Num(15000)>>, <<Num(NaN)>>}

MdAsks == {<<>>, <<Num(4800)>>, <<Num(-100)>>, <<Num(PosInf)>>, <<Num(BP)>>}

MdFrames ==
    { BookMsg(b, a) : b \in MdBids, a \in MdAsks }
    \cup { BookMsgAt(<<>>, b, <<>>, a, Missing) :
              b \in {<<>>, <<Num(4200)>>}, a \in {<<>>, <<Num(5000)>>} }
    \cup { BookMsgAt(<<Num(4400)>>, <<Num(4200)>>, <<>>, <<Num(5200)>>, Missing) }
    \cup { BookMsgAt(<<Num(3000)>>, <<>>, <<Num(7000)>>, <<>>, ts) : ts \in {Num(2), Garbage} }
    \cup { PriceChangeMsg(<<[best_bid |-> b, best_ask |-> a]>>) :
              b \in {Missing, Garbage, Num(4600), Num(NegInf)},
              a \in {Missing, Num(5400), Num(20000)} }
    \cup { PriceChangeMsgAt(<<[best_bid |-> Num(3600), best_ask |-> Num(5600)],
                              [best_bid |-> Garbage, best_ask |-> Num(5800)],
                              [best_bid |-> Missing, best_ask |-> Garbage]>>, ts) :
              ts \in {Missing, Num(1), Garbage} }
    \cup { TickSizeMsg(t) : t \in {Garbage, Num(50), Num(0), Num(-100), Num(NaN)} }
    \cup { LastTradeMsgAt(Num(4000), ts) : ts \in {Missing, Num(1), Num(AgeCap), Garbage} }

\* state.last_book_ts_ms after the frame: on_book and on_price_change assign
\* it when nothing has raised before
book_ts_after(cur, raw, h) ==
    IF raw.json = "object" /\ raw.event_type \in {"book", "price_change"} /\ ~h.raised
    THEN Num(ts_age(raw))
    ELSE cur

\* state.last_trade_ts_ms after the frame
trade_ts_after(cur, raw, h) ==
    IF raw.json = "object" /\ raw.event_type = "last_trade_price" /\ ~h.raised
    THEN Num(ts_age(raw))
    ELSE cur

InitMd ==
    /\ logLevel = "INFO"
    /\ enablePerf = FALSE
    /\ ReconcileIdle
    /\ MdFresh
    /\ BotFresh
    /\ LadderIdle
    /\ PollIdle
    /\ TsFresh
    /\ RunIdle
    /\ bankroll_B = 50 * Micro
    /\ lifeLeft = Micro

MdFrame ==
    /\ \E raw \in MdFrames :
          /\ WsFrame(raw, MaxMdFrames)
          /\ \E h \in {ws_frame(book, trade_ts, raw)} :
                /\ last_book_ts_ms' = book_ts_after(last_book_ts_ms, raw, h)
                /\ last_trade_ts_ms' = trade_ts_after(last_trade_ts_ms, raw, h)
    /\ UNCHANGED <<cfgVars, runVars, fnVars, pollVars, reconVars, botVars>>

NextMd == MdFrame

SpecMd == InitMd /\ [][NextMd]_vars

(***************************************************************************)
(* The bot (MarketMakerBot.run): the ingestor, the warm-up sampler, and,   *)
(* once warm-up is over, the fill poller and the quote loop.  Each step is *)
(* written once, with the behaviour of the venue as a parameter; SpecBot   *)
(* runs the bot against a venue whose calls may fail, SpecFills against a  *)
(* venue that answers every call and fills resting orders.                 *)
(***************************************************************************)
BotFrames == { BookMsg(<<Num(4000)>>, <<Num(4800)>>), UnknownEvent }

FillsFrames == { BookMsg(<<Num(4000)>>, <<Num(4800)>>) }

NoBotFail == [balances |-> FALSE, list |-> FALSE, cancel |-> {}, place |-> {},
              blank |-> {}]

\* at most one call of a cycle fails: get_balances, list_open_orders, or
\* the placement of the first bid
BotFails(d, v) ==
    {NoBotFail,
     [NoBotFail EXCEPT !.balances = TRUE],
     [NoBotFail EXCEPT !.list = TRUE]}
    \cup {[NoBotFail EXCEPT !.place = {<<d.bids[i].side, d.bids[i].price>>}] :
              i \in 1..Min2(1, Len(d.bids))}

\* the clock advances by one unit
Tick ==
    /\ trade_ts' = [i \in 1..Len(trade_ts) |-> older(trade_ts[i])]
    /\ botInd' = [botInd EXCEPT
                 !.last_sample_age = IF @ = Missing THEN @
                                     ELSE Num(Min2(@.v + 1, SampleAgeCap)),
                 !.fills_pending = age_fills(@)]
    /\ venueFills' = age_fills(venueFills)
    /\ warmAge' = IF phase = "warmup" THEN Min2(warmAge + 1, MaxWarmupUnits) ELSE warmAge
    /\ UNCHANGED <<cfgVars, tsVars, runVars, fnVars, pollVars, reconVars, wsTask, book, lastFrame, frames, mid_from_book,
                   bankroll_B, lifeLeft, phase, quoteTask, fillsTask, q_yes,
                   last_fills_poll, cycle, sigma_at_fill>>

BotFrame ==
    /\ \E raw \in BotFrames : WsFrame(raw, MaxBotFrames)
    /\ UNCHANGED <<cfgVars, tsVars, runVars, fnVars, pollVars, reconVars, botVars>>

\* a mistaken run: the tasks are created without waiting for _warmup
created_at_once(task, done) == "running"

\* asyncio.create_task in run, which follows the return of _warmup
created(task, done) == IF done THEN "running" ELSE task

\* a mistaken run: the tasks are left alone
not_cancelled(task) == task

\* t.cancel() in run: a task that has not finished is cancelled
cancelled(task) == IF task = "running" THEN "cancelled" ELSE task

\* one iteration of the loop of _warmup and, when the loop ends, what follows
\* it before run yields again: the snapshot is written, warmup_done is logged
\* and the fill poller and the quote loop are created; when the event is set
\* by then, _shutdown.wait() returns at once, so run cancels the tasks, logs
\* shutdown and closes the log in the same step
WarmupTick ==
    /\ phase = "warmup"
    /\ LET p == book.mid
       IN  IF ~shutdownSet /\ ~(0 < p /\ p < BP)
           THEN UNCHANGED <<botInd, phase, quoteTask, fillsTask, wsTask, snapshots, log>>
           ELSE \E i2 \in {IF shutdownSet THEN botInd
                           ELSE update_markouts(
                                    on_time_sample(botInd, p, trade_rate_per_s(trade_ts, 60)),
                                    p)} :
                   LET done == \/ shutdownSet
                               \/ warm_ready(i2, MinReturnSamples)
                               \/ warmAge >= MaxWarmupUnits
                   IN  /\ botInd' = i2
                       /\ snapshots' = IF done THEN snapshots + 1 ELSE snapshots
                       /\ phase' = IF ~done THEN "warmup"
                                   ELSE IF shutdownSet THEN "done" ELSE "running"
                       /\ quoteTask' = IF shutdownSet THEN cancelled(created(quoteTask, done))
                                       ELSE created(quoteTask, done)
                       /\ fillsTask' = IF shutdownSet THEN cancelled(created(fillsTask, done))
                                       ELSE created(fillsTask, done)
                       /\ wsTask' = IF done /\ shutdownSet THEN cancelled(wsTask) ELSE wsTask
                       /\ log' = IF ~done THEN log
                                 ELSE IF shutdownSet THEN [tail |-> "shutdown", closed |-> TRUE]
                                 ELSE [tail |-> "event", closed |-> FALSE]
    /\ UNCHANGED <<cfgVars, tsVars, fnVars, pollVars, reconVars, book, trade_ts, lastFrame, frames,
                   mid_from_book, bankroll_B, lifeLeft, warmAge, q_yes, venueFills,
                   last_fills_poll, cycle, sigma_at_fill,
                   shutdownSet, ahead, late, calls, qpc, fpc, inPass, plan>>

\* one iteration of _poll_fills.  fault says where it raises: nowhere
\* ("none"), in get_fills, or in the logger.write of record_fill ("write"),
\* there for the k-th fill of the poll, after record_fill has appended it.
\* The iteration runs only while the record of handed fills has room.
PollIteration(Faults) ==
    /\ fillsTask = "running"
    /\ \E fault \in Faults :
       \E fills \in {IF fault = "get_fills" THEN <<>>
                     ELSE get_fills(venueFills, last_fills_poll)} :
       \E k \in (IF fault = "write" THEN 1..Len(fills) ELSE {Len(fills)}) :
       \E got \in {SubSeq(fills, 1, k)} :
          /\ Len(handed) + Len(got) <= MaxHanded
          /\ botInd' = record_fills(botInd, got, 1)
          /\ handed' = handed \o [i \in 1..Len(got) |-> got[i].ts]
          /\ last_fills_poll' =
                IF fault = "none" /\ fills # <<>>
                THEN Max2(last_fills_poll, max_ts(fills, Len(fills)))
                ELSE last_fills_poll
          /\ sigma_at_fill' = IF got # <<>> THEN botInd.sigma_smoothed ELSE sigma_at_fill
          /\ fillsTask' = IF fault # "none" /\ capture_error_raises(Logger)
                          THEN "failed" ELSE "running"
    /\ UNCHANGED <<cfgVars, tsVars, fnVars, reconVars, mdVars, bankroll_B, lifeLeft, phase, warmAge,
                   quoteTask, q_yes, venueFills, cycle>>

\* the iteration as one step
PollStep(Faults) == PollIteration(Faults) /\ UNCHANGED runVars

\* one iteration of _quote_loop; faulty: whether a venue call may fail.
\* An exception of the cycle reaches the handler of the loop, which ends
\* the task when capture_error raises in its turn.
QuoteStep(faulty) ==
    /\ quoteTask = "running"
    /\ LET p == book.mid
       IN  IF ~(0 < p /\ p < BP)
           THEN /\ cycle' = "skipped"
                /\ UNCHANGED <<botInd, quoteTask, venue, nextOid, desired, pass, passes>>
           ELSE \E i1 \in {update_markouts(botInd, p)} :
                \E c \in {compute(book, trade_ts, i1, q_yes, bankroll_B, lifeLeft)} :
                \E d \in {[bids |-> order_units(c.bids), asks |-> order_units(c.asks)]} :
                \E fail \in (IF faulty THEN BotFails(d, venue) ELSE {NoBotFail}) :
                       IF fail.balances
                       THEN /\ cycle' = "error"
                            /\ quoteTask' = IF capture_error_raises(Logger)
                                            THEN "failed" ELSE "running"
                            /\ UNCHANGED <<botInd, venue, nextOid, desired, pass, passes>>
                       ELSE \E r \in {reconcile(d, venue, nextOid, apiMatched, fail, Logger)} :
                                /\ botInd' = i1
                                /\ desired' = d
                                /\ pass' = r
                                /\ passes' = Min2(passes + 1, MaxCycles)
                                /\ venue' = venue_after(venue, r.ops, 1)
                                /\ nextOid' = r.oid
                                /\ cycle' = IF r.raised THEN "error" ELSE "ok"
                                /\ quoteTask' = IF r.raised /\ capture_error_raises(Logger)
                                                THEN "failed" ELSE "running"
    /\ UNCHANGED <<cfgVars, tsVars, runVars, fnVars, pollVars, prev, mdVars, bankroll_B, lifeLeft, phase, warmAge,
                   fillsTask, q_yes, venueFills, last_fills_poll, sigma_at_fill>>

InitBot ==
    /\ \E c \in LogConfigs : logLevel = c[1] /\ enablePerf = c[2]
    /\ ReconcileIdle
    /\ MdFresh
    /\ BotFresh
    /\ LadderIdle
    /\ PollIdle
    /\ TsFresh
    /\ RunIdle
    /\ bankroll_B = 50 * Micro
    /\ lifeLeft = Micro

PollFills == PollStep({"none", "get_fills"})

QuoteCycle == QuoteStep(TRUE)

NextBot == Tick \/ BotFrame \/ WarmupTick \/ PollFills \/ QuoteCycle

SpecBot == InitBot /\ [][NextBot]_vars

(***************************************************************************)
(* SpecFills: the bot against a venue that answers every call and matches, *)
(* in full, resting orders of the bot.                                     *)
(***************************************************************************)
\* whether no order of the side of o rests at a better price than o
best_priced(v, o) ==
    \A j \in 1..Len(v) :
        (v[j].asset_id = o.asset_id /\ v[j].side = o.side)
            => IF o.side = "BUY" THEN v[j].price <= o.price ELSE v[j].price >= o.price

\* the venue matches, in full, a best-priced resting order of the bot
VenueFill ==
    /\ Len(venueFills) < MaxFills
    /\ \E i \in 1..Len(venue) :
          LET o == venue[i]
          IN  /\ o.asset_id = ASSET_YES
              /\ best_priced(venue, o)
              /\ o.side = "SELL" => q_yes >= o.size
              /\ venue' = SelectSeq(venue, LAMBDA x : x.order_id # o.order_id)
              /\ q_yes' = IF o.side = "BUY" THEN q_yes + o.size ELSE q_yes - o.size
              /\ venueFills' = Append(venueFills,
                                      Fill(Len(venueFills) + 1, o.side,
                                           o.price \div UnitsPerBP, o.size))
    /\ UNCHANGED <<cfgVars, tsVars, runVars, fnVars, pollVars, nextOid, desired, pass, prev, passes, mdVars, bankroll_B,
                   lifeLeft, phase, warmAge, botInd, quoteTask, fillsTask, last_fills_poll,
                   cycle, sigma_at_fill>>

InitFills ==
    /\ logLevel = "INFO"
    /\ enablePerf = FALSE
    /\ ReconcileIdle
    /\ MdFresh
    /\ BotFresh
    /\ LadderIdle
    /\ PollIdle
    /\ TsFresh
    /\ RunIdle
    /\ bankroll_B = 50 * Micro
    /\ lifeLeft = Micro

BookFrame ==
    /\ \E raw \in FillsFrames : WsFrame(raw, MaxBotFrames)
    /\ UNCHANGED <<cfgVars, tsVars, runVars, fnVars, pollVars, reconVars, botVars>>

PollFillsOk == PollStep({"none"})

QuoteCycleOk == QuoteStep(FALSE)

NextFills == Tick \/ BookFrame \/ WarmupTick \/ PollFillsOk \/ QuoteCycleOk \/ VenueFill

SpecFills == InitFills /\ [][NextFills]_vars

\* the sampler, the poller and the quote loop are tasks of the event loop,
\* each woken by its own sleep: none of them waits for ever
SpecFillsFair ==
    /\ SpecFills
    /\ WF_vars(Tick)
    /\ WF_vars(WarmupTick)
    /\ WF_vars(PollFillsOk)
    /\ WF_vars(QuoteCycleOk)

(***************************************************************************)
(* SpecQuote: the sampler and the quote loop, for a bankroll that is zero  *)
(* or not and a market at the start, in the middle or at the end of its    *)
(* life, against a venue that answers every call.                          *)
(***************************************************************************)
QuoteFrames ==
    { BookMsg(<<Num(4000)>>, <<Num(4800)>>),
      PriceChangeMsg(<<[best_bid |-> Num(4800), best_ask |-> Num(5000)]>>) }

InitQuote ==
    /\ logLevel = "INFO"
    /\ enablePerf = FALSE
    /\ ReconcileIdle
    /\ MdFresh
    /\ BotFresh
    /\ LadderIdle
    /\ PollIdle
    /\ TsFresh
    /\ RunIdle
    /\ bankroll_B \in {0, 50 * Micro}
    /\ lifeLeft \in {0, Micro \div 2, Micro}

QuoteFrame ==
    /\ \E raw \in QuoteFrames : WsFrame(raw, MaxFrames)
    /\ UNCHANGED <<cfgVars, tsVars, runVars, fnVars, pollVars, reconVars, botVars>>

NextQuote == Tick \/ QuoteFrame \/ WarmupTick \/ QuoteCycleOk

SpecQuote == InitQuote /\ [][NextQuote]_vars

(***************************************************************************)
(* SpecScope: the bot of SpecFills on an account that also trades the NO   *)
(* token; get_trades lists the trades of the account in every market.      *)
(***************************************************************************)
OtherMarketFill ==
    /\ Len(venueFills) < MaxFills
    /\ \E side \in {"BUY", "SELL"} :
          venueFills' = Append(venueFills,
                               FillOf(ASSET_NO, Len(venueFills) + 1, side, 3000, 5 * Micro))
    /\ UNCHANGED <<cfgVars, tsVars, runVars, fnVars, pollVars, reconVars, mdVars,
                   bankroll_B, lifeLeft, phase, warmAge, botInd, quoteTask, fillsTask,
                   q_yes, last_fills_poll, cycle, sigma_at_fill>>

NextScope ==
    Tick \/ BookFrame \/ WarmupTick \/ PollFillsOk \/ QuoteCycleOk \/ VenueFill
        \/ OtherMarketFill

SpecScope == InitFills /\ [][NextScope]_vars

(***************************************************************************)
(* SpecFeed: the bot on a market channel that can die: a frame whose       *)
(* handling raises ends _ws_loop, and so does the end of the connection    *)
(* (the async for over the websocket ends, or raises ConnectionClosed).    *)
(* run holds the task in ws_task and awaits only the shutdown event.       *)
(***************************************************************************)
FeedFrames == { BookMsg(<<Num(4000)>>, <<Num(4800)>>), NonObject }

FeedFrame ==
    /\ \E raw \in FeedFrames : WsFrame(raw, MaxFeedFrames)
    /\ UNCHANGED <<cfgVars, tsVars, runVars, fnVars, pollVars, reconVars, botVars>>

Disconnect ==
    /\ wsTask = "running"
    /\ \E how \in {"ended", "failed"} : wsTask' = how
    /\ UNCHANGED <<cfgVars, tsVars, runVars, fnVars, pollVars, reconVars, botVars,
                   book, trade_ts, lastFrame, frames, mid_from_book>>

NextFeed == Tick \/ FeedFrame \/ Disconnect \/ WarmupTick \/ QuoteCycleOk

SpecFeed == InitFills /\ [][NextFeed]_vars

(***************************************************************************)
(* SpecTick: the sampler and the quote loop on a book whose tick size the  *)
(* market channel changes, to a smaller tick and to a negative number,     *)
(* against a venue that answers every call.                                *)
(***************************************************************************)
TickFrames ==
    { BookMsg(<<Num(4000)>>, <<Num(4800)>>),
      PriceChangeMsg(<<[best_bid |-> Num(4800), best_ask |-> Num(5000)]>>),
      TickSizeMsg(Num(50)), TickSizeMsg(Num(-100)), TickSizeMsg(Num(-5000)) }

InitTick ==
    /\ logLevel = "INFO"
    /\ enablePerf = FALSE
    /\ ReconcileIdle
    /\ MdFresh
    /\ BotFresh
    /\ LadderIdle
    /\ PollIdle
    /\ TsFresh
    /\ RunIdle
    /\ bankroll_B = 50 * Micro
    /\ lifeLeft = Micro

TickFrame ==
    /\ \E raw \in TickFrames : WsFrame(raw, MaxTickFrames)
    /\ UNCHANGED <<cfgVars, tsVars, runVars, fnVars, pollVars, reconVars, botVars>>

NextTick == Tick \/ TickFrame \/ WarmupTick \/ QuoteCycleOk

SpecTick == InitTick /\ [][NextTick]_vars

(***************************************************************************)
(* SpecPoll: the bot of SpecFills with a fill poller whose iteration may   *)
(* raise, in get_fills or in the log write of record_fill, under the       *)
(* default logger and under DebugLogger.                                   *)
(***************************************************************************)
PollFaults == {"none", "get_fills", "write"}

InitPoll ==
    /\ \E c \in {<<"INFO", FALSE>>, <<"INFO", TRUE>>} : logLevel = c[1] /\ enablePerf = c[2]
    /\ ReconcileIdle
    /\ MdFresh
    /\ BotFresh
    /\ LadderIdle
    /\ PollIdle
    /\ TsFresh
    /\ RunIdle
    /\ bankroll_B = 50 * Micro
    /\ lifeLeft = Micro

PollFillsFaulty == PollStep(PollFaults)

NextPoll == Tick \/ BookFrame \/ WarmupTick \/ PollFillsFaulty \/ QuoteCycleOk \/ VenueFill

SpecPoll == InitPoll /\ [][NextPoll]_vars

(***************************************************************************)
(* SpecRun: MarketMakerBot.run with its three tasks, each moving from one  *)
(* await to the next, and the shutdown signal.  The event loop runs        *)
(* wake-ups in the order they were queued: a task whose awaited call had   *)
(* completed before the event was set runs one step before run does.       *)
(***************************************************************************)
RunFrames == { InvalidJson, BookMsg(<<Num(4000)>>, <<Num(4800)>>) }

\* a record is written to the log
wrote(l) == [l EXCEPT !.tail = "event"]

\* the task may be given the processor: once the event is set, run comes
\* first, but for the tasks queued ahead of it
MayRun(t) == ~shutdownSet \/ t \in ahead \/ phase = "done"

\* the task has run a step; again: whether it can go on without waiting
Ran(t, again) ==
    /\ ahead' = IF again THEN ahead ELSE ahead \ {t}
    /\ late' = IF shutdownSet THEN [late EXCEPT ![t] = @ + 1] ELSE late

InitRun ==
    /\ logLevel = "INFO"
    /\ enablePerf = FALSE
    /\ ReconcileIdle
    /\ wsTask = "none"
    /\ book = BookState0
    /\ trade_ts = <<>>
    /\ lastFrame = NoFrame
    /\ frames = 0
    /\ mid_from_book = FALSE
    /\ phase = "start"
    /\ warmAge = 0
    /\ botInd = Indicators0
    /\ quoteTask = "none"
    /\ fillsTask = "none"
    /\ q_yes = 0
    /\ venueFills = <<>>
    /\ last_fills_poll = 0
    /\ cycle = "none"
    /\ sigma_at_fill = Micro
    /\ LadderIdle
    /\ PollIdle
    /\ TsFresh
    /\ shutdownSet = FALSE
    /\ ahead = {}
    /\ late = NotLate
    /\ snapshots = 0
    /\ log = [tail |-> "none", closed |-> FALSE]
    /\ calls = {}
    /\ qpc = "sleep"
    /\ fpc = "sleep"
    /\ inPass = 0
    /\ plan = <<>>
    /\ bankroll_B = 50 * Micro
    /\ lifeLeft = Micro

\* run up to the loop of _warmup: the ingestor is created, warmup_start is logged
RunStart ==
    /\ phase = "start"
    /\ phase' = "warmup"
    /\ wsTask' = "running"
    /\ log' = wrote(log)
    /\ UNCHANGED <<cfgVars, tsVars, fnVars, pollVars, reconVars, book, trade_ts, lastFrame, frames,
                   mid_from_book, bankroll_B, lifeLeft, warmAge, botInd, quoteTask, fillsTask,
                   q_yes, venueFills, last_fills_poll, cycle, sigma_at_fill,
                   shutdownSet, ahead, late, snapshots, calls, qpc, fpc, inPass, plan>>

\* the signal handler of main.py runs bot.shutdown(), which sets the event
Shutdown ==
    /\ phase \in {"warmup", "running"}
    /\ ~shutdownSet
    /\ shutdownSet' = TRUE
    /\ ahead' = Tasks
    /\ UNCHANGED <<cfgVars, tsVars, fnVars, pollVars, reconVars, mdVars, botVars,
                   late, snapshots, log, calls, qpc, fpc, inPass, plan>>

\* run resumes from _shutdown.wait(): it cancels the tasks, logs shutdown
\* and closes the log
RunWake ==
    /\ phase = "running"
    /\ shutdownSet
    /\ phase' = "done"
    /\ ahead' = {}
    /\ quoteTask' = cancelled(quoteTask)
    /\ fillsTask' = cancelled(fillsTask)
    /\ wsTask' = cancelled(wsTask)
    /\ log' = [tail |-> "shutdown", closed |-> TRUE]
    /\ UNCHANGED <<cfgVars, tsVars, fnVars, pollVars, reconVars, book, trade_ts, lastFrame, frames,
                   mid_from_book, bankroll_B, lifeLeft, warmAge, botInd, q_yes, venueFills,
                   last_fills_poll, cycle, sigma_at_fill,
                   shutdownSet, late, snapshots, calls, qpc, fpc, inPass, plan>>

\* _ws_loop handles a frame.  A frame that is not JSON is logged and the
\* loop continues with the next one, past the test of the event.
RunFrame ==
    /\ MayRun("ws")
    /\ \E raw \in RunFrames :
          /\ WsFrame(raw, MaxRunFrames)
          /\ Ran("ws", raw.json = "invalid")
          /\ log' = IF raw.json = "invalid" THEN wrote(log) ELSE log
    /\ UNCHANGED <<cfgVars, tsVars, fnVars, pollVars, reconVars, botVars,
                   shutdownSet, snapshots, calls, qpc, fpc, inPass, plan>>

\* _poll_fills starts, or resumes from its sleep: it tests the event and calls get_fills
PollWake ==
    /\ fillsTask = "running"
    /\ fpc = "sleep"
    /\ MayRun("fills")
    /\ Ran("fills", FALSE)
    /\ IF shutdownSet
       THEN fillsTask' = "ended" /\ UNCHANGED <<fpc, calls>>
       ELSE fpc' = "get_fills" /\ calls' = calls \cup {"get_fills"} /\ UNCHANGED fillsTask
    /\ UNCHANGED <<cfgVars, tsVars, fnVars, pollVars, reconVars, mdVars, bankroll_B, lifeLeft, phase,
                   warmAge, botInd, quoteTask, q_yes, venueFills, last_fills_poll, cycle,
                   sigma_at_fill, shutdownSet, snapshots, log, qpc, inPass, plan>>

\* _poll_fills resumes with the fills: it records them and sleeps
PollResult ==
    /\ fpc = "get_fills"
    /\ MayRun("fills")
    /\ Ran("fills", FALSE)
    /\ PollIteration({"none"})
    /\ fpc' = "sleep"
    /\ log' = IF handed' # handed THEN wrote(log) ELSE log
    /\ UNCHANGED <<shutdownSet, snapshots, calls, qpc, inPass, plan>>

\* the pass goes on with the calls it has still to make: it issues the
\* next one, or returns, and then the loop sleeps
PassAdvance(ops) ==
    IF ops = <<>>
    THEN /\ inPass' = inPass - 1
         /\ qpc' = "sleep"
         /\ cycle' = "ok"
         /\ plan' = <<>>
         /\ UNCHANGED <<venue, calls>>
    ELSE /\ venue' = venue_apply(venue, Head(ops))
         /\ calls' = calls \cup {IF Head(ops).act = "cancel" THEN "cancel_order"
                                 ELSE "place_limit_order"}
         /\ plan' = Tail(ops)
         /\ qpc' = "op"
         /\ UNCHANGED <<inPass, cycle>>

\* a mistaken loop: it goes round while the pass is still making its calls
loop_resumes_early(pc) == pc \in {"sleep", "op"}

\* the loop of _quote_loop goes round when _reconcile, which it awaits, has
\* returned and its sleep is over
loop_resumes(pc) == pc = "sleep"

\* _quote_loop starts, or resumes from its sleep: it tests the event, then
\* the mid, and calls get_balances
QuoteWake ==
    /\ quoteTask = "running"
    /\ loop_resumes(qpc)
    /\ MayRun("quote")
    /\ Ran("quote", FALSE)
    /\ IF shutdownSet
       THEN quoteTask' = "ended" /\ UNCHANGED <<qpc, calls, cycle>>
       ELSE IF ~(0 < book.mid /\ book.mid < BP)
       THEN cycle' = "skipped" /\ UNCHANGED <<quoteTask, qpc, calls>>
       ELSE qpc' = "balances" /\ calls' = calls \cup {"get_balances"}
            /\ UNCHANGED <<quoteTask, cycle>>
    /\ UNCHANGED <<cfgVars, tsVars, fnVars, pollVars, reconVars, mdVars, bankroll_B, lifeLeft, phase,
                   warmAge, botInd, fillsTask, q_yes, venueFills, last_fills_poll,
                   sigma_at_fill, shutdownSet, snapshots, log, fpc, inPass, plan>>

\* _quote_loop resumes with the balances: markouts, Quoter.compute, and
\* _reconcile is entered, which calls list_open_orders
QuoteBalances ==
    /\ quoteTask = "running"
    /\ qpc = "balances"
    /\ MayRun("quote")
    /\ Ran("quote", FALSE)
    /\ \E i1 \in {update_markouts(botInd, book.mid)} :
       \E c \in {compute(book, trade_ts, i1, q_yes, bankroll_B, lifeLeft)} :
          /\ botInd' = i1
          /\ desired' = [bids |-> order_units(c.bids), asks |-> order_units(c.asks)]
    /\ inPass' = inPass + 1
    /\ calls' = calls \cup {"list_open_orders"}
    /\ qpc' = "list"
    /\ UNCHANGED <<cfgVars, tsVars, fnVars, pollVars, venue, nextOid, pass, prev, passes, mdVars,
                   bankroll_B, lifeLeft, phase, warmAge, quoteTask, fillsTask, q_yes,
                   venueFills, last_fills_poll, cycle, sigma_at_fill,
                   shutdownSet, snapshots, log, fpc, plan>>

\* _reconcile resumes with the open orders: it decides what to cancel and
\* what to place, and issues the first of these calls
QuoteList ==
    /\ quoteTask = "running"
    /\ qpc = "list"
    /\ MayRun("quote")
    /\ Ran("quote", FALSE)
    /\ \E r \in {reconcile(desired, venue, nextOid, apiMatched, NoBotFail, Logger)} :
          /\ pass' = r
          /\ passes' = Min2(passes + 1, MaxCycles)
          /\ nextOid' = r.oid
          /\ PassAdvance(r.ops)
    /\ log' = wrote(log)
    /\ UNCHANGED <<cfgVars, tsVars, fnVars, pollVars, desired, prev, mdVars, botVars,
                   shutdownSet, snapshots, fpc>>

\* _reconcile resumes from a place or cancel call
QuoteOp ==
    /\ quoteTask = "running"
    /\ qpc = "op"
    /\ MayRun("quote")
    /\ Ran("quote", FALSE)
    /\ PassAdvance(plan)
    /\ log' = wrote(log)
    /\ UNCHANGED <<cfgVars, tsVars, fnVars, pollVars, nextOid, desired, pass, prev, passes, mdVars,
                   bankroll_B, lifeLeft, phase, warmAge, botInd, quoteTask, fillsTask, q_yes,
                   venueFills, last_fills_poll, sigma_at_fill, shutdownSet, snapshots, fpc>>

NextRun ==
    \/ RunStart \/ Tick \/ WarmupTick \/ Shutdown \/ RunWake \/ RunFrame
    \/ PollWake \/ PollResult \/ QuoteWake \/ QuoteBalances \/ QuoteList \/ QuoteOp

SpecRun == InitRun /\ [][NextRun]_vars

\* run is a task of the event loop, the clock advances, and the sleep of
\* the warm-up loop returns
SpecRunFair ==
    /\ SpecRun
    /\ WF_vars(RunStart)
    /\ WF_vars(Tick)
    /\ WF_vars(WarmupTick)

(***************************************************************************)
(* SpecBuffers: the three bounded deques next to their capacity, over a    *)
(* stretch shorter than one time unit.  The bot has run for a long time on *)
(* a quiet market: the mid has stayed at 0.5, so every return is 0 and     *)
(* every EMA is still 0, and the trade timeline is one entry short of full *)
(* (its oldest message carried a timestamp a little later than the ones    *)
(* that followed).  Either the warm-up is still sampling, its history full *)
(* and the next sample due (min_return_samples is beyond the capacity of   *)
(* the history, and max_warmup_s is not reached within the stretch), or    *)
(* the bot is running with a pending list one fill short of full, filled   *)
(* at the mid.                                                             *)
(***************************************************************************)
LongTimeline(n) ==
    [i \in 1..n |-> IF i = 1 THEN AgeCap - 1 ELSE IF i > n - 2 THEN 1 ELSE AgeCap]

QuietReturns(n) == [i \in 1..n |-> 0]

\* fills at the mid, all past the first horizon; the two oldest and every
\* 500th (the venue does not answer in the order of time) are past the
\* second horizon as well, which the next update_markouts will notice
LongPending(n) ==
    [i \in 1..n |->
        [Fill(i, IF i % 2 = 0 THEN "BUY" ELSE "SELL", BP \div 2, 5 * Micro)
            EXCEPT !.age = IF i <= 2 \/ i % 500 = 0 THEN AgeCap ELSE 3,
                   !.h1_done = TRUE]]

BufFrames ==
    { LastTradeMsgAt(Num(4000), ts) : ts \in {Missing, Num(2)} }
    \cup { BookMsg(<<Num(4000)>>, <<Num(4800)>>) }

InitBuffers ==
    /\ logLevel = "INFO"
    /\ enablePerf = FALSE
    /\ ReconcileIdle
    /\ LadderIdle
    /\ PollIdle
    /\ TsFresh
    /\ RunIdle
    /\ wsTask = "running"
    /\ book = BookState0
    /\ trade_ts = LongTimeline(trade_ts_maxlen - 1)
    /\ lastFrame = NoFrame
    /\ frames = 0
    /\ mid_from_book = FALSE
    /\ bankroll_B = 50 * Micro
    /\ lifeLeft = Micro
    /\ warmAge = 0
    /\ quoteTask = "none"
    /\ fillsTask = "none"
    /\ q_yes = 0
    /\ venueFills = <<>>
    /\ cycle = "none"
    /\ sigma_at_fill = Micro
    /\ \/ /\ phase = "warmup"
          /\ last_fills_poll = 0
          /\ botInd = [Indicators0 EXCEPT
                         !.returns = QuietReturns(returns_maxlen),
                         !.last_sample_age = Num(SampleAgeCap),
                         !.last_x = Num(0)]
       \/ /\ phase = "running"
          /\ last_fills_poll = fills_pending_maxlen - 1
          /\ botInd = [Indicators0 EXCEPT
                         !.returns = QuietReturns(returns_maxlen),
                         !.last_sample_age = Num(0),
                         !.last_x = Num(0),
                         !.fills_pending = LongPending(fills_pending_maxlen - 1)]

BufFrame ==
    /\ \E raw \in BufFrames : WsFrame(raw, MaxBufFrames)
    /\ UNCHANGED <<cfgVars, tsVars, runVars, fnVars, pollVars, reconVars, botVars>>

\* one iteration of the loop of _warmup; warm_ready stays false
BufSample ==
    /\ phase = "warmup"
    /\ 0 < book.mid /\ book.mid < BP
    /\ \E i2 \in {update_markouts(
                      on_time_sample(botInd, book.mid, trade_rate_per_s(trade_ts, 60)),
                      book.mid)} :
          botInd' = i2
    /\ UNCHANGED <<cfgVars, tsVars, runVars, fnVars, pollVars, reconVars, mdVars,
                   bankroll_B, lifeLeft, phase, warmAge, quoteTask, fillsTask, q_yes,
                   venueFills, last_fills_poll, cycle, sigma_at_fill>>

\* _poll_fills with one new fill in the answer of get_fills
BufFill ==
    /\ phase = "running"
    /\ last_fills_poll < fills_pending_maxlen - 1 + MaxBufFills
    /\ \E side \in {"BUY", "SELL"}, price \in {4000, 4800} :
          \E i2 \in {record_fill(botInd, Fill(last_fills_poll + 1, side, price, 5 * Micro))} :
             botInd' = i2
    /\ last_fills_poll' = last_fills_poll + 1
    /\ UNCHANGED <<cfgVars, tsVars, runVars, fnVars, pollVars, reconVars, mdVars,
                   bankroll_B, lifeLeft, phase, warmAge, quoteTask, fillsTask, q_yes,
                   venueFills, cycle, sigma_at_fill>>

\* update_markouts as _quote_loop calls it at the top of a cycle
BufMarkouts ==
    /\ phase = "running"
    /\ 0 < book.mid /\ book.mid < BP
    /\ \E i2 \in {update_markouts(botInd, book.mid)} : botInd' = i2
    /\ UNCHANGED <<cfgVars, tsVars, runVars, fnVars, pollVars, reconVars, mdVars,
                   bankroll_B, lifeLeft, phase, warmAge, quoteTask, fillsTask, q_yes,
                   venueFills, last_fills_poll, cycle, sigma_at_fill>>

NextBuffers == BufFrame \/ BufSample \/ BufFill \/ BufMarkouts

SpecBuffers == InitBuffers /\ [][NextBuffers]_vars

(***************************************************************************)
(* SpecClock: the wall clock runs from before start_ts_ms, where more than *)
(* the whole window of the market is ahead, to after resolve_ts_ms.        *)
(***************************************************************************)
InitClock ==
    /\ logLevel = "INFO"
    /\ enablePerf = FALSE
    /\ ReconcileIdle
    /\ MdFresh
    /\ BotFresh
    /\ LadderIdle
    /\ PollIdle
    /\ TsFresh
    /\ RunIdle
    /\ bankroll_B = 50 * Micro
    /\ lifeLeft \in {ClockStart, ClockStart - ClockStep \div 2}

ClockTick ==
    /\ lifeLeft > -ClockEnd
    /\ lifeLeft' = lifeLeft - ClockStep
    /\ UNCHANGED <<cfgVars, tsVars, runVars, fnVars, pollVars, reconVars, mdVars,
                   bankroll_B, phase, warmAge, botInd, quoteTask, fillsTask, q_yes,
                   venueFills, last_fills_poll, cycle, sigma_at_fill>>

NextClock == ClockTick

SpecClock == InitClock /\ [][NextClock]_vars

(***************************************************************************)
(* SpecSigma: the Indicators object under any order of its calls: samples  *)
(* (on_time_sample), fills (record_fill) and mark-out updates              *)
(* (update_markouts), while the clock advances, the book moves the mid and *)
(* trades arrive.  The return history counts the samples.                  *)
(***************************************************************************)
SigFrames ==
    { BookMsg(<<Num(4000)>>, <<Num(4800)>>), LastTradeMsg(Num(4000)) }

InitSigma ==
    /\ logLevel = "INFO"
    /\ enablePerf = FALSE
    /\ ReconcileIdle
    /\ MdFresh
    /\ BotFresh
    /\ LadderIdle
    /\ PollIdle
    /\ TsFresh
    /\ RunIdle
    /\ bankroll_B = 50 * Micro
    /\ lifeLeft = Micro

SigFrame ==
    /\ \E raw \in SigFrames : WsFrame(raw, MaxSigFrames)
    /\ UNCHANGED <<cfgVars, tsVars, runVars, fnVars, pollVars, reconVars, botVars>>

SigSample ==
    /\ Len(botInd.returns) < MaxSigSamples
    /\ 0 < book.mid /\ book.mid < BP
    /\ \E i2 \in {on_time_sample(botInd, book.mid, trade_rate_per_s(trade_ts, 60))} :
          botInd' = i2
    /\ UNCHANGED <<cfgVars, tsVars, runVars, fnVars, pollVars, reconVars, mdVars,
                   bankroll_B, lifeLeft, phase, warmAge, quoteTask, fillsTask, q_yes,
                   venueFills, last_fills_poll, cycle, sigma_at_fill>>

SigFill ==
    /\ last_fills_poll < MaxSigFills
    /\ \E side \in {"BUY", "SELL"} :
          \E i2 \in {record_fill(botInd, Fill(last_fills_poll + 1, side, 4400, 5 * Micro))} :
             botInd' = i2
    /\ last_fills_poll' = last_fills_poll + 1
    /\ UNCHANGED <<cfgVars, tsVars, runVars, fnVars, pollVars, reconVars, mdVars,
                   bankroll_B, lifeLeft, phase, warmAge, quoteTask, fillsTask, q_yes,
                   venueFills, cycle, sigma_at_fill>>

SigMarkouts ==
    /\ 0 < book.mid /\ book.mid < BP
    /\ \E i2 \in {update_markouts(botInd, book.mid)} : botInd' = i2
    /\ UNCHANGED <<cfgVars, tsVars, runVars, fnVars, pollVars, reconVars, mdVars,
                   bankroll_B, lifeLeft, phase, warmAge, quoteTask, fillsTask, q_yes,
                   venueFills, last_fills_poll, cycle, sigma_at_fill>>

NextSigma == Tick \/ SigFrame \/ SigSample \/ SigFill \/ SigMarkouts

SpecSigma == InitSigma /\ [][NextSigma]_vars

(***************************************************************************)
(* SpecSample: Indicators.on_time_sample called on its own, at call times  *)
(* given to the millisecond.  ladIn holds the arguments of the last call:  *)
(* its number, the time since the last admitted sample, and p_mid.         *)
(***************************************************************************)
ElapsedMs == {0, 4989, 4990, 5000}

SampleMids == {4000, 4400, 5000}

SampleCallArgs(n, e, p) == [n |-> n, elapsed_ms |-> e, p_mid |-> p]

InitSample ==
    /\ logLevel = "INFO"
    /\ enablePerf = FALSE
    /\ ReconcileIdle
    /\ MdFresh
    /\ BotFresh
    /\ PollIdle
    /\ TsFresh
    /\ RunIdle
    /\ bankroll_B = 50 * Micro
    /\ lifeLeft = Micro
    /\ ladIn = SampleCallArgs(0, 0, 5000)
    /\ ladOut = NoLadderOut
    /\ cleaned = [bids |-> <<>>, asks |-> <<>>]

SampleCall ==
    /\ ladIn.n < MaxSampleCalls
    /\ \E e \in ElapsedMs, p \in SampleMids :
          /\ ladIn' = SampleCallArgs(ladIn.n + 1, e, p)
          /\ \E i2 \in {on_time_sample_at(botInd, e, p, trade_rate_per_s(trade_ts, 60))} :
                botInd' = i2
    /\ UNCHANGED <<cfgVars, tsVars, runVars, pollVars, reconVars, mdVars, ladOut, cleaned,
                   bankroll_B, lifeLeft, phase, warmAge, quoteTask, fillsTask, q_yes,
                   venueFills, last_fills_poll, cycle, sigma_at_fill>>

NextSample == SampleCall

SpecSample == InitSample /\ [][NextSample]_vars

(***************************************************************************)
(* SpecLadder: build_v1_ladder called on its own, with the ladder settings *)
(* Quoter.compute passes (decay, step multiplier, minimum step), followed  *)
(* by clean_orders on each side as in compute.  Logits are in micro,       *)
(* the tick in BP, the capital in micro dollars.  The larger capital comes *)
(* with centres near the middle of the book only, where every size stays   *)
(* below MaxMicro.                                                         *)
(***************************************************************************)
LadderInput(r, hb, ha, t, b, n) ==
    [r_x |-> r, half_b |-> hb, half_a |-> ha, tick |-> t, B_side |-> b, max_levels |-> n]

LadderInputs ==
    {LadderInput(r * Micro, hb, ha, t, b, n) :
        r \in {-800, -40, -4, -1, 0, 1, 4, 40, 800},
        hb \in {0, 200000, 893000}, ha \in {0, 200000, 893000},
        t \in {50, 100, 1000}, b \in {0, 75 * Micro}, n \in {0, 2, 5}}
    \cup
    {LadderInput(r * Micro, h, h, t, 500 * Micro, 5) :
        r \in {-1, 0, 1}, h \in {200000, 893000}, t \in {50, 100}}

InitLadder ==
    /\ logLevel = "INFO"
    /\ enablePerf = FALSE
    /\ ReconcileIdle
    /\ MdFresh
    /\ BotFresh
    /\ bankroll_B = 50 * Micro
    /\ lifeLeft = Micro
    /\ PollIdle
    /\ TsFresh
    /\ RunIdle
    /\ ladIn \in LadderInputs
    /\ ladOut = NoLadderOut
    /\ cleaned = [bids |-> <<>>, asks |-> <<>>]

LadderCall ==
    /\ ~ladOut.called
    /\ \E l \in {build_v1_ladder(ladIn.r_x, ladIn.half_b, ladIn.half_a, ladIn.tick,
                                 ladIn.B_side, ladder_decay, ladder_step_mult,
                                 ladder_min_step_logit, ladIn.max_levels)} :
          /\ ladOut' = [called |-> TRUE, bids |-> l.bids, asks |-> l.asks]
          /\ cleaned' = [bids |-> clean_orders(l.bids, "BUY"),
                         asks |-> clean_orders(l.asks, "SELL")]
    /\ UNCHANGED <<cfgVars, tsVars, runVars, reconVars, mdVars, botVars, pollVars, ladIn>>

NextLadder == LadderCall

SpecLadder == InitLadder /\ [][NextLadder]_vars

(***************************************************************************)
(* SpecReconcile: reconcile passes with one desired ladder against the     *)
(* venue.                                                                  *)
(***************************************************************************)
InitReconcile ==
    /\ \E c \in LogConfigs : logLevel = c[1] /\ enablePerf = c[2]
    /\ apiMatched \in BOOLEAN
    /\ venue \in InitVenues
    /\ nextOid = Len(venue) + 1
    /\ desired \in Ladders
    /\ pass = NoPass
    /\ prev = NoPass
    /\ passes = 0
    /\ MdFresh
    /\ BotFresh
    /\ LadderIdle
    /\ PollIdle
    /\ TsFresh
    /\ RunIdle
    /\ bankroll_B = 50 * Micro
    /\ lifeLeft = Micro

ReconcilePass ==
    /\ passes < MaxPasses
    /\ \E fail \in Fails(desired, venue) :
          LET r == reconcile(desired, venue, nextOid, apiMatched, fail, Logger)
          IN  /\ pass' = r
              /\ prev' = pass
              /\ venue' = venue_after(venue, r.ops, 1)
              /\ nextOid' = r.oid
    /\ passes' = passes + 1
    /\ UNCHANGED <<fnVars, pollVars, runVars, tsVars, logLevel, enablePerf, apiMatched, desired, mdVars, botVars>>

NextReconcile == ReconcilePass

SpecReconcile == InitReconcile /\ [][NextReconcile]_vars

(***************************************************************************)
(* What the claims about a reconcile pass speak of, read off the record of *)
(* the last pass: the desired levels of a side, the open orders of the     *)
(* side in the snapshot, the calls issued for one level, and whether the   *)
(* pass got as far as a level before an exception left it.                 *)
(***************************************************************************)
Sides == {"BUY", "SELL"}

Wanted(p, side) == IF side = "BUY" THEN p.desired.bids ELSE p.desired.asks

Existing(p, side) ==
    SelectSeq(p.open, LAMBDA o : o.asset_id = ASSET_YES /\ o.side = side)

LevelOps(p, side, lvl) ==
    SelectSeq(p.ops, LAMBDA op : op.side = side /\ op.lvl = lvl /\ op.why # "prune")

Within1e9(a, b) == Abs(a - b) < 2

RelDiffAboveQuarter(remaining, want) ==
    IF remaining > 0 THEN 4 * Abs(remaining - want) > remaining ELSE want > 0

\* every call of the pass succeeded and was applied by the venue
AllCallsOk(p) ==
    /\ p.ran
    /\ p.listed
    /\ \A i \in 1..Len(p.ops) :
          p.ops[i].ok /\ (p.ops[i].act = "place" => p.ops[i].created)

LastOp(p) == p.ops[Len(p.ops)]

Reached(p, side, lvl) ==
    \/ ~p.raised
    \/ /\ side = "BUY"
       /\ (LastOp(p).side = "SELL" \/ LastOp(p).why = "prune" \/ LastOp(p).lvl >= lvl)
    \/ /\ side = "SELL"
       /\ LastOp(p).side = "SELL"
       /\ (LastOp(p).why = "prune" \/ LastOp(p).lvl >= lvl)

\* the order the reconciler holds for the price of level lvl
HeldOrder(p, side, lvl) ==
    LET E == Existing(p, side)
        keys == dict_keys(E)
    IN  dict_value(E, keys[found_index(keys, Wanted(p, side)[lvl].price)])

(***************************************************************************)
(* C1. Reconciler idempotence: after a pass in which every venue call      *)
(* succeeded and was applied by the venue, a second pass with the same     *)
(* desired ladder issues no place_limit_order and no cancel_order.         *)
(***************************************************************************)
C1_Idempotent ==
    (pass.ran /\ AllCallsOk(prev) /\ prev.desired = pass.desired)
        => pass.ops = <<>>

(***************************************************************************)
(* C2. Reconciler error isolation: when a place or cancel fails for one    *)
(* level, the failure is recorded and every other desired level of both    *)
(* sides and every prune candidate is still processed in that pass, under  *)
(* every logging configuration.                                            *)
(***************************************************************************)
LevelProcessed(p, side, lvl) ==
    LET w == Wanted(p, side)[lvl]
        E == Existing(p, side)
    IN  IF \E i \in 1..Len(E) : Within1e9(E[i].price, w.price)
        THEN RelDiffAboveQuarter(HeldOrder(p, side, lvl).size_remaining, w.size)
                => LevelOps(p, side, lvl) # <<>>
        ELSE LevelOps(p, side, lvl) # <<>>

PruneProcessed(p, side) ==
    LET E == Existing(p, side)
        W == Wanted(p, side)
    IN  \A i \in 1..Len(E) :
            (~\E l \in 1..Len(W) : Within1e9(E[i].price, W[l].price))
                => \E k \in 1..Len(p.ops) :
                      /\ p.ops[k].act = "cancel"
                      /\ p.ops[k].side = side
                      /\ p.ops[k].price = E[i].price

C2_ErrorIsolation ==
    (pass.ran /\ pass.listed) =>
        /\ \A k \in 1..Len(pass.ops) : pass.ops[k].recorded
        /\ \A side \in Sides :
              /\ \A lvl \in 1..Len(Wanted(pass, side)) : LevelProcessed(pass, side, lvl)
              /\ PruneProcessed(pass, side)

(***************************************************************************)
(* C5. Resize rule: for a desired level whose price matches an existing    *)
(* order of its side within 1e-9, the reconciler cancels that order and    *)
(* then places the desired size at the desired price if and only if        *)
(* |size_remaining - size_desired| / max(size_remaining, 1e-9) > 0.25;     *)
(* otherwise it issues nothing for the level.  (The place follows only a   *)
(* cancel that succeeded, and a level no longer reached after an exception *)
(* left the pass gets no call.)                                            *)
(***************************************************************************)
IsCancelOf(op, o) == op.act = "cancel" /\ op.oid = o.order_id

IsPlaceOf(op, w) ==
    op.act = "place" /\ op.side = w.side /\ op.price = w.price /\ op.size = w.size

C6_NoDoubling ==
    pass.ran =>
        \A k \in 1..Len(pass.ops) :
            (pass.ops[k].act = "cancel" /\ pass.ops[k].why = "resize" /\ ~pass.ops[k].ok)
            => /\ ~\E j \in 1..Len(pass.ops) :
                      /\ pass.ops[j].act = "place"
                      /\ pass.ops[j].side = pass.ops[k].side
                      /\ pass.ops[j].lvl = pass.ops[k].lvl
               /\ ~\E i \in 1..Len(venue) :
                      /\ venue[i].order_id >= pass.oid0
                      /\ venue[i].side = pass.ops[k].side
                      /\ Within1e9(venue[i].price, pass.ops[k].price)

C6_Witness ==
    /\ pass.ran
    /\ \E k \in 1..Len(pass.ops) :
          pass.ops[k].act = "cancel" /\ pass.ops[k].why = "resize" /\ ~pass.ops[k].ok

(***************************************************************************)
(* C7. Pruning: in one pass every existing open order of the traded asset  *)
(* whose price matches no desired level of its side within 1e-9 receives   *)
(* exactly one cancel_order, and an existing order whose price matches a   *)
(* desired level within the size tolerance receives no call.               *)
(***************************************************************************)
CancelsOf(p, oid) ==
    Cardinality({k \in 1..Len(p.ops) : p.ops[k].act = "cancel" /\ p.ops[k].oid = oid})

C7_Pruning ==
    (pass.ran /\ pass.listed) =>
        \A side \in Sides :
            LET E == Existing(pass, side)
                W == Wanted(pass, side)
            IN  \A i \in 1..Len(E) :
                    LET L == {l \in 1..Len(W) : Within1e9(E[i].price, W[l].price)}
                    IN  /\ L = {} => CancelsOf(pass, E[i].order_id) = 1
                        /\ (\E l \in L :
                               ~RelDiffAboveQuarter(E[i].size_remaining, W[l].size))
                              => CancelsOf(pass, E[i].order_id) = 0

(***************************************************************************)
(* C4 -- Ingestor survival: a frame that fails to parse (invalid JSON, a   *)
(* JSON value that is not an object, a book entry without a parseable      *)
(* price, a tick_size_change without new_tick_size, a last_trade_price     *)
(* without price) does not end the ingestor: after reading it the task is  *)
(* still running, and so reads and applies the frames that follow.         *)
(***************************************************************************)
Unparseable(field) == field.tag # "num"

FailsToParse(raw) ==
    \/ raw.json = "invalid"
    \/ raw.json = "non_object"
    \/ /\ raw.json = "object"
       /\ \/ /\ raw.event_type = "book"
             /\ \/ raw.bids # <<>> /\ Unparseable(raw.bids[1])
                \/ raw.asks # <<>> /\ Unparseable(raw.asks[1])
          \/ raw.event_type = "tick_size_change" /\ Unparseable(raw.new_tick_size)
          \/ raw.event_type = "last_trade_price" /\ Unparseable(raw.price)

C4_IngestorSurvival == FailsToParse(lastFrame) => wsTask = "running"

\* the part of C4 the code keeps: invalid JSON is logged and skipped
C4_InvalidJsonSkipped == lastFrame.json = "invalid" => wsTask = "running"

(***************************************************************************)
(* C3. Loop survival: an exception raised by a venue call of the quote     *)
(* loop (get_balances, reconcile) or of the fill poller (get_fills) is     *)
(* caught and logged and the loop runs again; neither task ever ends       *)
(* because of it, under every logging configuration.  (Stated for the bot  *)
(* that has ingested a valid top of book.)                                 *)
(***************************************************************************)
C3_LoopSurvival == mid_from_book => (quoteTask # "failed" /\ fillsTask # "failed")

(***************************************************************************)
(* C8. Zero bankroll: when bankroll_B is 0 the desired ladder of a quote   *)
(* cycle is empty on both sides, and the reconcile pass of the cycle       *)
(* places no order and cancels every open order of the traded asset.       *)
(* (Stated for cycles that quote around a mid taken from the book.)        *)
(***************************************************************************)
C8_ZeroBankroll ==
    (bankroll_B = 0 /\ mid_from_book /\ cycle = "ok") =>
        /\ desired.bids = <<>>
        /\ desired.asks = <<>>
        /\ \A k \in 1..Len(pass.ops) : pass.ops[k].act # "place"
        /\ \A i \in 1..Len(pass.open) :
              pass.open[i].asset_id = ASSET_YES
                  => \E k \in 1..Len(pass.ops) : IsCancelOf(pass.ops[k], pass.open[i])

(***************************************************************************)
(* C9. Valid-mid gating: as long as no top-of-book update with             *)
(* 0 < best_bid < best_ask < 1 has been ingested, every sampler tick and   *)
(* every quote cycle is skipped: no sample is admitted, no return is       *)
(* recorded, no reconcile pass runs and no order rests at the venue.       *)
(***************************************************************************)
C9_ValidMidGating ==
    ~mid_from_book =>
        /\ botInd.last_x = Missing
        /\ botInd.returns = <<>>
        /\ ~pass.ran
        /\ venue = <<>>

(***************************************************************************)
(* C10. Toxicity raises sigma in the running bot: once fills handed over   *)
(* by the fill poller have received positive mark-outs at both horizons,   *)
(* sigma_smoothed eventually rises above the value it had when the fills   *)
(* were handed over.                                                       *)
(***************************************************************************)
C10_ToxicityRaisesSigma ==
    (mid_from_book /\ botInd.tox_ema_pos_h1 > 0 /\ botInd.tox_ema_pos_h2 > 0)
        ~> (botInd.sigma_smoothed > sigma_at_fill)

(***************************************************************************)
(* Claims about the ladder and the quoter's output (SpecLadder).           *)
(***************************************************************************)
\* the notional impact of the first i emitted orders of a side
RECURSIVE NotionalSum(_, _)
NotionalSum(orders, i) ==
    IF i = 0
    THEN 0
    ELSE NotionalSum(orders, i - 1) +
         (IF orders[i].side = "BUY"
          THEN MulMicro(price_micro(orders[i].price), orders[i].size)
          ELSE MulMicro(Micro - price_micro(orders[i].price), orders[i].size))

\* C11 - Notional cap: on each side the notional impact of the emitted
\* orders (price * size for BUY, (1 - price) * size for SELL, sizes as emitted,
\* after the min_order_size adjustment) sums to at most
\* max_order_notional_side.
C11_NotionalCap ==
    ladOut.called =>
        /\ NotionalSum(cleaned.bids, Len(cleaned.bids)) <= max_order_notional_side
        /\ NotionalSum(cleaned.asks, Len(cleaned.asks)) <= max_order_notional_side

\* the limit cut the bid side: levels were emitted and a later one was dropped
C11_Witness ==
    /\ ladOut.called
    /\ Len(cleaned.bids) > 0
    /\ Len(cleaned.bids) < Len(ladOut.bids)
    /\ Len(cleaned.asks) > 0
    /\ Len(cleaned.asks) < Len(ladOut.asks)

\* C12 - Ladder ordering: the bid prices build_v1_ladder returns are strictly
\* decreasing, the ask prices strictly increasing, and each side has at most
\* max_levels levels.
C12_LadderOrdering ==
    ladOut.called =>
        /\ \A i \in 1..(Len(ladOut.bids) - 1) : ladOut.bids[i].price > ladOut.bids[i + 1].price
        /\ \A i \in 1..(Len(ladOut.asks) - 1) : ladOut.asks[i].price < ladOut.asks[i + 1].price
        /\ Len(ladOut.bids) <= ladIn.max_levels
        /\ Len(ladOut.asks) <= ladIn.max_levels

\* levels that snapped to one price were collapsed: a level number is missing
\* between two levels of the bid side
C12_Witness ==
    /\ ladOut.called
    /\ \E i \in 1..(Len(ladOut.bids) - 1) : ladOut.bids[i + 1].level > ladOut.bids[i].level + 1
    /\ Len(ladOut.asks) = ladIn.max_levels
    /\ ladIn.max_levels > 0

\* C13 - Ladder price range: every price of the ladder output is an integer
\* multiple of the tick and lies strictly between tick and 1 - tick.
C13_LadderPriceRange ==
    ladOut.called =>
        \A l \in {ladOut.bids[i] : i \in 1..Len(ladOut.bids)}
                 \cup {ladOut.asks[i] : i \in 1..Len(ladOut.asks)} :
            /\ l.price % ladIn.tick = 0
            /\ ladIn.tick < l.price
            /\ l.price < BP - ladIn.tick

(***************************************************************************)
(* Claims about the adapter (SpecReconcile).                               *)
(***************************************************************************)
\* C14 - Open-order remaining size: for every order list_open_orders
\* returns to a reconcile pass, size_remaining is the unfilled portion of the
\* order at the venue, its size minus the size already matched.
C14_RemainingSize ==
    [][(passes' = passes + 1 /\ pass'.listed) =>
          /\ Len(pass'.open) = Len(venue)
          /\ \A i \in 1..Len(venue) :
                pass'.open[i].size_remaining = venue[i].size - venue[i].size_matched]_vars

(***************************************************************************)
(* Claims about the fill poller (SpecPoll).                                *)
(***************************************************************************)
\* the greatest ts among the first i fills handed over
RECURSIVE MaxHandedTs(_)
MaxHandedTs(i) == IF i = 0 THEN 0 ELSE Max2(handed[i], MaxHandedTs(i - 1))

\* C15 - Fill polling: every poll asks for the fills newer than the
\* last-seen timestamp; the last-seen timestamp never decreases and, once
\* fills were handed over, equals the greatest ts handed over so far; and
\* no fill is handed to record_fill twice, also when an iteration raises
\* part-way.
C15_FillPolling ==
    /\ [](\A i, j \in 1..Len(handed) : handed[i] = handed[j] => i = j)
    /\ [](handed # <<>> => last_fills_poll = MaxHandedTs(Len(handed)))
    /\ [][last_fills_poll' >= last_fills_poll]_vars
    /\ [][\A i \in (Len(handed) + 1)..Len(handed') : handed'[i] > last_fills_poll]_vars

(***************************************************************************)
(* Claims about the pending fills (SpecFills).                             *)
(***************************************************************************)
Pending == botInd.fills_pending

\* the entries of PendingFills after the step that come from entry f
After(f) == {g \in {botInd'.fills_pending[j] : j \in 1..Len(botInd'.fills_pending)} :
                g.ts = f.ts}

OldEnough(f, h_s) == f.age * TimeUnit_s >= h_s

C17_PhaseOrdering ==
    /\ [](phase # "start" => wsTask # "none")
    /\ [][calls' # calls => (phase \in {"running", "done"} /\ snapshots = 1)]_vars
    /\ [](calls # {} => snapshots = 1)
    /\ []((shutdownSet /\ phase = "warmup")
            => [](venue = <<>> /\ "place_limit_order" \notin calls))

\* the bot has warmed up, written the snapshot once and placed an order
C17_Witness ==
    /\ snapshots = 1
    /\ phase = "running"
    /\ "place_limit_order" \in calls
    /\ venue # <<>>

\* shutdown came during warm-up and run has returned
C17_ShutdownInWarmup == phase = "done" /\ calls = {} /\ quoteTask = "cancelled"


(***************************************************************************)
(* C18 (shutdown): once shutdown is signalled, the ingestor, the fill      *)
(* poller and the quote loop each stop at their next yield point without   *)
(* starting a further reconcile pass, poll or frame, and the shutdown      *)
(* event is the last record written to the log before the log is closed.   *)
(***************************************************************************)
PollStarts == fpc = "sleep" /\ fpc' = "get_fills"

PassStarts == inPass' > inPass

FrameHandled == frames' # frames

ShutdownLast == log.closed => log.tail = "shutdown"

WarmingUp == phase \in {"start", "warmup"}

EnoughReturns == Len(botInd.returns) >= MinReturnSamples

OrderCall == venue' # venue \/ nextOid' # nextOid

C20_SingleIssuer ==
    /\ [](inPass <= 1)
    /\ [][inPass' > inPass => inPass = 0]_vars
    /\ [][OrderCall => (inPass = 1 /\ inPass' = 1 /\ qpc' = "op")]_vars

\* the second pass of a run is placing or cancelling, after the ingestor
\* and the poller have run in between
C20_Witness ==
    /\ inPass = 1
    /\ qpc = "op"
    /\ passes = 2
    /\ frames > 0
    /\ "get_fills" \in calls


(***************************************************************************)
(* C21 (price range of the book state): after any sequence of book and     *)
(* price_change messages best_bid and best_ask are finite and lie in       *)
(* [0, 1]; a price field that is not finite or lies outside [0, 1] is      *)
(* dropped: it leaves its side unchanged.                                  *)
(***************************************************************************)
InRange(v) == IsFinite(v) /\ 0 <= v /\ v <= BP

IsBookFrame(raw) == raw.json = "object" /\ raw.event_type = "book"

IsPriceChange(raw) == raw.json = "object" /\ raw.event_type = "price_change"

\* the fields a frame holds for a side, in the order the program reads them
SideFields(raw, side) ==
    IF IsBookFrame(raw)
    THEN LET first == IF side = "bid" THEN raw.bids ELSE raw.asks
             second == IF side = "bid" THEN raw.buys ELSE raw.sells
             l == IF first # <<>> THEN first ELSE second
         IN  IF l = <<>> THEN <<>> ELSE <<l[1]>>
    ELSE IF IsPriceChange(raw)
    THEN [i \in 1..Len(raw.price_changes) |->
             raw.price_changes[i][IF side = "bid" THEN "best_bid" ELSE "best_ask"]]
    ELSE <<>>

\* every field of the side that parses is not finite or out of range
AllOutOfRange(fields) ==
    \A i \in 1..Len(fields) : fields[i].tag = "num" => ~InRange(fields[i].v)

C21_BookPriceRange ==
    /\ [](InRange(book.best_bid) /\ InRange(book.best_ask))
    /\ [][/\ AllOutOfRange(SideFields(lastFrame', "bid")) => book'.best_bid = book.best_bid
          /\ AllOutOfRange(SideFields(lastFrame', "ask")) => book'.best_ask = book.best_ask]_vars


(***************************************************************************)
(* C22 (tick size positivity): tick_size is strictly positive in every     *)
(* reachable state, whatever new_tick_size the tick_size_change messages   *)
(* carry (zero, negative, not finite).                                     *)
(***************************************************************************)
C22_TickPositive == IsFinite(book.tick_size) /\ book.tick_size > 0

(***************************************************************************)
(* C23 (monotone timestamps): last_book_ts_ms and last_trade_ts_ms never   *)
(* decrease, also when a message carries a timestamp older than one        *)
(* already ingested.  Timestamps are ages here: the older one is larger.   *)
(***************************************************************************)
NotBefore(new, old) == old = Missing \/ (new # Missing /\ new.v <= old.v)

C23_MonotoneTimestamps ==
    [][/\ NotBefore(last_book_ts_ms', last_book_ts_ms)
       /\ NotBefore(last_trade_ts_ms', last_trade_ts_ms)]_vars

(***************************************************************************)
(* C24 (mid after a valid book): after a book message whose tops give      *)
(* 0 < bb < ba < 1, under either naming of the sides, best_bid = bb,       *)
(* best_ask = ba and mid = (bb + ba) / 2.                                  *)
(***************************************************************************)
ValidTop(raw) ==
    /\ IsBookFrame(raw)
    /\ Len(SideFields(raw, "bid")) = 1 /\ Len(SideFields(raw, "ask")) = 1
    /\ SideFields(raw, "bid")[1].tag = "num" /\ SideFields(raw, "ask")[1].tag = "num"
    /\ 0 < SideFields(raw, "bid")[1].v
    /\ SideFields(raw, "bid")[1].v < SideFields(raw, "ask")[1].v
    /\ SideFields(raw, "ask")[1].v < BP

C24_MidAfterValidBook ==
    [][(frames' = frames + 1 /\ ValidTop(lastFrame'))
         => /\ book'.best_bid = SideFields(lastFrame', "bid")[1].v
            /\ book'.best_ask = SideFields(lastFrame', "ask")[1].v
            /\ book'.mid = (book'.best_bid + book'.best_ask) \div 2]_vars

(***************************************************************************)
(* C25 (mid unchanged by invalid tops): a book or price_change message     *)
(* after which best_bid <= 0, best_ask >= 1 or best_bid >= best_ask leaves *)
(* mid at its previous value; a book message with an empty side leaves     *)
(* that side's best price unchanged.                                       *)
(***************************************************************************)
TopsValid(st) == 0 < st.best_bid /\ st.best_bid < st.best_ask /\ st.best_ask < BP

C25_MidUnchangedByInvalidTops ==
    [][/\ (frames' = frames + 1 /\ (IsBookFrame(lastFrame') \/ IsPriceChange(lastFrame'))
            /\ ~TopsValid(book'))
          => book'.mid = book.mid
       /\ (frames' = frames + 1 /\ IsBookFrame(lastFrame'))
          => /\ SideFields(lastFrame', "bid") = <<>> => book'.best_bid = book.best_bid
             /\ SideFields(lastFrame', "ask") = <<>> => book'.best_ask = book.best_ask]_vars

\* a mid taken from the book has survived a book message that crossed the tops
C25_Witness ==
    /\ IsBookFrame(lastFrame)
    /\ SideFields(lastFrame, "ask") = <<>>
    /\ book.best_bid >= book.best_ask
    /\ book.best_ask < BP
    /\ mid_from_book
    /\ book.mid # (book.best_bid + book.best_ask) \div 2

(***************************************************************************)
(* C26 (price_change batches): after a price_change message each side's    *)
(* best price is the value of the last entry of the batch whose field for  *)
(* that side parses as a number; a side with no such entry keeps its       *)
(* value; a malformed or null field does not keep the later entries from   *)
(* being applied.                                                          *)
(***************************************************************************)
Parses(f) == f.tag = "num"

BatchLeaves(fields, before, after) ==
    IF \E i \in 1..Len(fields) : Parses(fields[i])
    THEN \E i \in 1..Len(fields) :
            /\ Parses(fields[i])
            /\ \A j \in (i + 1)..Len(fields) : ~Parses(fields[j])
            /\ after = fields[i].v
    ELSE after = before

InWindow(tts, window_s) == {i \in 1..Len(tts) : tts[i] * TimeUnit_s <= window_s}

C28_TradeRate ==
    trade_rate_per_s(trade_ts, 60) = DivMicro(Cardinality(InWindow(trade_ts, 60)), 60)

\* the n most recent entries of seq, in arrival order
Latest(seq, n) == SubSeq(seq, Max2(1, Len(seq) - n + 1), Len(seq))

TsOf(fills) == [i \in 1..Len(fills) |-> fills[i].ts]

\* after is before with some fills left out, the others in the same order
\* (the ts of the pending fills are distinct)
SameOrder(before, after) ==
    LET left == {after[i].ts : i \in 1..Len(after)}
    IN  TsOf(after) = SelectSeq(TsOf(before), LAMBDA t : t \in left)

\* the frame of this step was handled by on_last_trade_price to its end
TradeAppended ==
    /\ frames' = frames + 1
    /\ lastFrame'.event_type = "last_trade_price"
    /\ wsTask' # "failed"

\* on_time_sample of this step went past its two early returns
ReturnAppended ==
    /\ botInd.last_sample_age # Num(0)
    /\ botInd'.last_sample_age = Num(0)

FillAppended == last_fills_poll' # last_fills_poll

(***************************************************************************)
(* C27 (bounded buffers): the trade timeline never holds more than 5000    *)
(* entries, the return history never more than 5000, the pending fills     *)
(* never more than 2000.  A step that appends to one of them leaves it     *)
(* holding the most recent entries, the new one last, in arrival order: at *)
(* capacity exactly the oldest entry is gone.  A step that appends no fill *)
(* (update_markouts compacts the pending list in some of them) leaves the  *)
(* remaining pending fills in their arrival order.                         *)
(***************************************************************************)
C27_BoundedBuffers ==
    [][/\ Len(trade_ts') <= trade_ts_maxlen
       /\ Len(botInd'.returns) <= returns_maxlen
       /\ Len(botInd'.fills_pending) <= fills_pending_maxlen
       /\ TradeAppended =>
             trade_ts' = Latest(Append(trade_ts, ts_age(lastFrame')), trade_ts_maxlen)
       /\ ReturnAppended =>
             botInd'.returns = Latest(Append(botInd.returns,
                                             logit(book.mid) - botInd.last_x.v),
                                      returns_maxlen)
       /\ FillAppended =>
             /\ botInd'.fills_pending # <<>>
             /\ botInd'.fills_pending[Len(botInd'.fills_pending)].ts = last_fills_poll'
             /\ botInd'.fills_pending =
                   Latest(Append(botInd.fills_pending,
                                 botInd'.fills_pending[Len(botInd'.fills_pending)]),
                          fills_pending_maxlen)
       /\ ~FillAppended => SameOrder(botInd.fills_pending, botInd'.fills_pending)]_vars

\* the bot is running: two trades have pushed the oldest entry out of the
\* timeline, two fills the oldest fill out of the pending list, and
\* update_markouts has since dropped the fills past both horizons, from the
\* head and from the middle of the list
C27_Witness ==
    /\ phase = "running"
    /\ Len(trade_ts) = trade_ts_maxlen
    /\ trade_ts[1] = AgeCap
    /\ trade_ts[trade_ts_maxlen] \in {0, 2}
    /\ Len(botInd.returns) = returns_maxlen
    /\ last_fills_poll = fills_pending_maxlen + 1
    /\ Len(botInd.fills_pending) = fills_pending_maxlen - 4
    /\ botInd.fills_pending[1].ts = 3
    /\ botInd.fills_pending[Len(botInd.fills_pending)].ts = last_fills_poll

\* values of cfg.risk.eta_time
Etas == {0, Micro \div 4, eta_time, 3 * (Micro \div 4), Micro, 2 * Micro}

TimeFactorInRange(life) ==
    \A eta \in Etas : 0 <= time_factor_of(life, eta) /\ time_factor_of(life, eta) <= Micro

(***************************************************************************)
(* C29 (time_factor range): at every wall time, before start_ts_ms, within *)
(* the window and after resolve_ts_ms, and for every eta_time >= 0,        *)
(* time_factor lies in [0, 1]; and it does not increase as time advances.  *)
(***************************************************************************)
C29_TimeFactorRange ==
    [][/\ TimeFactorInRange(lifeLeft)
       /\ TimeFactorInRange(lifeLeft')
       /\ \A eta \in Etas :
             time_factor_of(lifeLeft', eta) <= time_factor_of(lifeLeft, eta)]_vars

(***************************************************************************)
(* C30 (sigma range): from the prior sigma = 1 on, after any sequence of   *)
(* samples and mark-out updates, the smoothed volatility the quoter reads  *)
(* lies in [1, sigma_max].                                                 *)
(***************************************************************************)
C30_SigmaRange ==
    /\ Micro <= sigma(botInd)
    /\ sigma(botInd) <= sigma_max

\* sigma has been pulled more than half of the way up from 1 to sigma_max
C30_Witness ==
    /\ Len(botInd.returns) >= 2
    /\ 2 * sigma(botInd) > Micro + sigma_max

\* the order_place record of the call names an order the venue holds
NamesAnOrder(op, v) ==
    \E i \in 1..Len(v) :
        /\ v[i].order_id = op.oid
        /\ v[i].asset_id = ASSET_YES
        /\ v[i].side = op.side
        /\ v[i].price = op.price

(***************************************************************************)
(* C31 (placement outcome): a place_limit_order call of a pass either      *)
(* returns the id of an order the venue created or fails; the pass writes  *)
(* order_place for a level only when the venue created the order, and for  *)
(* a failed placement it writes an error and makes no further call for the *)
(* level in the pass.                                                      *)
(***************************************************************************)
C31_PlacementOutcome ==
    \A k \in 1..Len(pass.ops) :
        pass.ops[k].act = "place" =>
            /\ pass.ops[k].ok => NamesAnOrder(pass.ops[k], venue)
            /\ ~pass.ops[k].ok =>
                  \A j \in (k + 1)..Len(pass.ops) :
                      ~(pass.ops[j].side = pass.ops[k].side /\ pass.ops[j].lvl = pass.ops[k].lvl)

\* the last pass of the quote loop ended at a failed list_open_orders
SnapshotFailed == pass.ran /\ ~pass.listed

(***************************************************************************)
(* C32 (failed snapshot): when list_open_orders fails, the pass issues no  *)
(* place_limit_order and no cancel_order, and the quote loop task does not *)
(* end: it stays running, so that the next cadence reconciles again.       *)
(***************************************************************************)
C32_FailedSnapshot ==
    SnapshotFailed => (pass.ops = <<>> /\ quoteTask = "running")

(***************************************************************************)
(* C33. Asset scoping: a pass cancels only open orders of the traded YES   *)
(* asset whose side is the side being reconciled (BUY for the bids, SELL   *)
(* for the asks), and a desired level it does not place anew was matched   *)
(* against such an order at its price; an order of another asset, or with  *)
(* a side that is neither BUY nor SELL, is neither cancelled nor matched.  *)
(***************************************************************************)
Foreign(o) == o.asset_id # ASSET_YES \/ o.side \notin Sides

CancelsOwnSide(p) ==
    \A k \in 1..Len(p.ops) :
        p.ops[k].act = "cancel" =>
            \E i \in 1..Len(p.open) :
                /\ p.open[i].order_id = p.ops[k].oid
                /\ ~Foreign(p.open[i])
                /\ p.open[i].side = p.ops[k].side

MatchesOwnSide(p) ==
    \A side \in Sides : \A lvl \in 1..Len(Wanted(p, side)) :
        (/\ Reached(p, side, lvl)
         /\ \A k \in 1..Len(p.ops) :
               ~(p.ops[k].side = side /\ p.ops[k].lvl = lvl /\ p.ops[k].why = "new"))
        => \E i \in 1..Len(p.open) :
               /\ ~Foreign(p.open[i])
               /\ p.open[i].side = side
               /\ Within1e9(p.open[i].price, Wanted(p, side)[lvl].price)

C33_AssetScoping ==
    (pass.ran /\ pass.listed) => (CancelsOwnSide(pass) /\ MatchesOwnSide(pass))

\* a foreign order rests at a desired price; the pass places that level anew,
\* cancels something else, and the foreign order is still at the venue
C33_Witness ==
    /\ pass.ran /\ pass.listed
    /\ \E i \in 1..Len(pass.open) : \E side \in Sides :
          \E lvl \in 1..Len(Wanted(pass, side)) :
             /\ Foreign(pass.open[i])
             /\ pass.open[i].price = Wanted(pass, side)[lvl].price
             /\ \E k \in 1..Len(pass.ops) :
                   /\ pass.ops[k].side = side /\ pass.ops[k].lvl = lvl
                   /\ pass.ops[k].why = "new" /\ pass.ops[k].ok
             /\ \E j \in 1..Len(venue) : venue[j].order_id = pass.open[i].order_id
    /\ \E k \in 1..Len(pass.ops) : pass.ops[k].act = "cancel" /\ pass.ops[k].ok

(***************************************************************************)
(* C34. Sample spacing: the first call of on_time_sample records only the  *)
(* reference time and the logit of the price and appends no return; a      *)
(* later call that comes at least dt_sample_s * 1000 - 10 ms after the     *)
(* last admitted sample appends exactly one return (the change of the      *)
(* logit) and updates the five EMAs, and a later call that comes earlier   *)
(* changes nothing of the risk engine.                                     *)
(***************************************************************************)
EmasUpdated(old, new, r) ==
    /\ new.ema_fast_abs = _ema(old.ema_fast_abs, Abs(r), tau_fast_s, dt_sample_s)
    /\ new.ema_slow_abs = _ema(old.ema_slow_abs, Abs(r), tau_slow_s, dt_sample_s)
    /\ new.ema_fast_r = _ema(old.ema_fast_r, r, tau_fast_s, dt_sample_s)
    /\ new.ema_fast_abs_r = _ema(old.ema_fast_abs_r, Abs(r), tau_fast_s, dt_sample_s)
    /\ new.ema_slow_abs_r = _ema(old.ema_slow_abs_r, Abs(r), tau_slow_s, dt_sample_s)

SampleSpacing(old, new, elapsed_ms, x) ==
    IF old.last_sample_age = Missing
    THEN new = [old EXCEPT !.last_sample_age = Num(0), !.last_x = Num(x)]
    ELSE IF elapsed_ms >= dt_sample_s * Kilo - 10
    THEN /\ new.returns = Append(old.returns, x - old.last_x.v)
         /\ new.last_sample_age = Num(0)
         /\ new.last_x = Num(x)
         /\ EmasUpdated(old, new, x - old.last_x.v)
    ELSE new = old

C34_SampleSpacing ==
    [][ladIn'.n = ladIn.n + 1 =>
          SampleSpacing(botInd, botInd', ladIn'.elapsed_ms, logit(ladIn'.p_mid))]_vars

\* the third call came 4989 ms after an admitted sample that moved the logit
C34_Witness ==
    /\ ladIn.n = 3
    /\ ladIn.elapsed_ms = 4989
    /\ Len(botInd.returns) = 1
    /\ botInd.returns[1] # 0
    /\ botInd.ema_fast_abs > 0

(***************************************************************************)
(* C35. Convergence: after a pass in which every venue call succeeded and  *)
(* was applied by the venue, the open orders of the traded asset are, on   *)
(* each side, exactly one order at each desired price and none at any      *)
(* other price, whatever the open orders were before the pass (several     *)
(* orders resting at one price included).                                  *)
(***************************************************************************)
OrdersAt(v, side, price) ==
    {i \in 1..Len(v) : /\ v[i].asset_id = ASSET_YES
                       /\ v[i].side = side
                       /\ Within1e9(v[i].price, price)}

Converged(v, d) ==
    \A side \in Sides :
        LET W == IF side = "BUY" THEN d.bids ELSE d.asks
        IN  /\ \A l \in 1..Len(W) : Cardinality(OrdersAt(v, side, W[l].price)) = 1
            /\ \A i \in 1..Len(v) :
                  (v[i].asset_id = ASSET_YES /\ v[i].side = side)
                     => \E l \in 1..Len(W) : Within1e9(v[i].price, W[l].price)

C35_Convergence == AllCallsOk(pass) => Converged(venue, pass.desired)

\* the same, for a pass that found at most one open order at each price
\* (prices within 1e-9 of each other counting as one)
DistinctPrices(p) ==
    \A side \in Sides :
        LET E == Existing(p, side)
        IN  \A i, j \in 1..Len(E) : Within1e9(E[i].price, E[j].price) => i = j

ConvergedFromDistinctPrices ==
    (AllCallsOk(pass) /\ DistinctPrices(pass)) => Converged(venue, pass.desired)

(***************************************************************************)
(* C36. Recovery after a failed replacement: when, resizing a level, the   *)
(* cancel succeeded and the place that follows failed, no order rests at   *)
(* the level's price after that pass, and the next pass with the same      *)
(* desired ladder, all of whose calls succeed, places the level, after     *)
(* which the open orders are those of the desired ladder.                  *)
(***************************************************************************)
FailedReplacement(p, side, lvl) ==
    /\ p.ran /\ p.listed
    /\ \E k \in 1..(Len(p.ops) - 1) :
          /\ p.ops[k].act = "cancel" /\ p.ops[k].why = "resize" /\ p.ops[k].ok
          /\ p.ops[k].side = side /\ p.ops[k].lvl = lvl
          /\ p.ops[k + 1].act = "place" /\ ~p.ops[k + 1].ok
          /\ p.ops[k + 1].side = side /\ p.ops[k + 1].lvl = lvl

Recovered(first, second, v, side, lvl) ==
    LET w == Wanted(first, side)[lvl]
    IN  /\ OrdersAt(second.open, side, w.price) = {}
        /\ \E k \in 1..Len(second.ops) : IsPlaceOf(second.ops[k], w)
        /\ \E i \in 1..Len(v) :
              /\ v[i].asset_id = ASSET_YES /\ v[i].side = side
              /\ v[i].price = w.price /\ v[i].size = w.size
        /\ Converged(v, second.desired)

C36_Recovery ==
    \A side \in Sides : \A lvl \in 1..Len(Wanted(prev, side)) :
        (/\ FailedReplacement(prev, side, lvl)
         /\ AllCallsOk(pass)
         /\ pass.desired = prev.desired)
        => Recovered(prev, pass, venue, side, lvl)

\* the same, for a first pass that found at most one open order at each price
RecoveryFromDistinctPrices ==
    \A side \in Sides : \A lvl \in 1..Len(Wanted(prev, side)) :
        (/\ FailedReplacement(prev, side, lvl)
         /\ DistinctPrices(prev)
         /\ AllCallsOk(pass)
         /\ pass.desired = prev.desired)
        => Recovered(prev, pass, venue, side, lvl)

(***************************************************************************)
(* C37. No self-crossing: in every output of the quoter computed with a    *)
(* positive half-spread, every bid price is strictly lower than every ask  *)
(* price.                                                                  *)
(***************************************************************************)
\* the half-spread compute derives from the state the quote cycle reads
HalfSpreadNow ==
    LET p == clip(book.mid, 0, BP)
    IN  quote_centre(p, trade_ts, quote_terms(p, trade_ts, q_yes, bankroll_B, lifeLeft),
                     sigma(botInd)).base_half_spread

NoSelfCrossing(d) ==
    \A i \in 1..Len(d.bids) : \A j \in 1..Len(d.asks) : d.bids[i].price < d.asks[j].price

C37_NoSelfCrossing ==
    [][(desired' # desired /\ HalfSpreadNow > 0) => NoSelfCrossing(desired')]_vars

\* the same, for the quote cycles that read a positive tick size
NoSelfCrossingOnPositiveTick ==
    [][(desired' # desired /\ HalfSpreadNow > 0 /\ book.tick_size > 0)
          => NoSelfCrossing(desired')]_vars

(***************************************************************************)
(* C38. Fill scoping: every pending fill is a fill of the traded YES       *)
(* asset, and as long as the account has no fill of the YES asset the fill *)
(* poller hands nothing to record_fill and the toxicity EMAs stay at zero. *)
(***************************************************************************)
NoFillOfTradedAsset ==
    \A i \in 1..Len(venueFills) : venueFills[i].asset_id # ASSET_YES

C38_FillScoping ==
    /\ \A i \in 1..Len(botInd.fills_pending) :
          botInd.fills_pending[i].asset_id = ASSET_YES
    /\ NoFillOfTradedAsset =>
          /\ handed = <<>>
          /\ botInd.tox_ema_pos_h1 = 0
          /\ botInd.tox_ema_pos_h2 = 0

\* the mark-out of a fill of the NO token has entered a toxicity EMA
ForeignFillInToxicity ==
    /\ NoFillOfTradedAsset
    /\ botInd.tox_ema_pos_h1 > 0

(***************************************************************************)
(* C39. No quoting on a dead feed: once the ingestor task has stopped (the *)
(* connection ended, or the handling of a frame raised), no quote cycle    *)
(* places an order.                                                        *)
(***************************************************************************)
FeedDead == wsTask \in {"ended", "failed"}

PlacesOrder(p) == \E k \in 1..Len(p.ops) : p.ops[k].act = "place"

C39_NoQuotingOnDeadFeed ==
    [][(FeedDead /\ pass' # pass) => ~PlacesOrder(pass')]_vars

\* run is still waiting for the shutdown event and the quote loop still runs
DeadFeedUnnoticed ==
    /\ FeedDead
    /\ phase = "running"
    /\ quoteTask = "running"
    /\ cycle = "ok"
    /\ PlacesOrder(pass)

(***************************************************************************)
(* C40. Mid invariant: from the construction of the book state on, and     *)
(* after any sequence of messages of the market channel, mid lies strictly *)
(* between 0 and 1.                                                        *)
(***************************************************************************)
C40_MidInvariant == 0 < book.mid /\ book.mid < BP

\* the mid was taken from the book, and the tops have since left (0, 1)
C40_Witness ==
    /\ mid_from_book
    /\ book.mid # BP \div 2
    /\ (book.best_bid <= 0 \/ book.best_ask >= BP)

====
